---- MODULE Spec2Model ----
(***************************************************************************)
(* A state-machine model of the draft engine of immer (copy-on-write       *)
(* immutable updates): drafts over records, sequences, keyed maps and      *)
(* unique sets, the scope stack, finalization, patch generation and patch  *)
(* application.                                                            *)
(*                                                                         *)
(* JavaScript values are pairs <<tag, n>>:                                 *)
(*   <<"num", n>>    a number          <<"nan", 0>>   NaN                  *)
(*   <<"negz", 0>>   -0 (+0 is <<"num", 0>>)                               *)
(*   <<"undef", 0>>  undefined         <<"str", n>>   a string (key)       *)
(*   <<"obj", o>>    a reference to heap object o (plain container)        *)
(*   <<"draft", d>>  the draft (proxy / DraftMap / DraftSet) of state d    *)
(*   <<"nothing",0>> the NOTHING sentinel                                  *)
(*   <<"hole", 0>>   an array hole (only inside array entries)             *)
(* A heap object is [type, ents, frozen]; ents is the ordered list of      *)
(* <<key, value>> entries (array: key = <<"num", index>>; set: key = the   *)
(* element).                                                               *)
(***************************************************************************)
EXTENDS Integers, Sequences, FiniteSets, TLC

VARIABLES
    heap,          \* Seq of heap objects: every plain container ever allocated
    st,            \* Seq of draft states (ImmerState), indexed by draft id
    scopes,        \* Seq of ImmerScope records, indexed by scope id
    currentScope,  \* scope.ts `currentScope`: a scope id, 0 = undefined
    autoFreeze,    \* Immer.autoFreeze_
    pc,            \* position of the caller: "recipe", "done", "failed", "applied"
    run,           \* the running produce call: base, scope, root draft, listener
    outcome,       \* what produce returned / threw and what the listener received
    hist,          \* history of the recipe: number of steps, writes, keys written
    probe,         \* the last use of a draft after its scope ended, and its outcome
    snap,          \* the last call of current(draft): what it returned and changed
    man,           \* createDraft / finishDraft: the last call and the drafts finished
    stack,         \* the produce calls in progress, innermost last: one frame each
    plugins        \* utils/plugins.ts `plugins`: the names of the plugins loaded

vars == <<heap, st, scopes, currentScope, autoFreeze, pc, run, outcome, hist, probe,
          snap, man, stack, plugins>>

----------------------------------------------------------------------------
(* Bounds of the model *)

MaxSteps == 2      \* recipe operations per Run
MaxLen == 3        \* largest array length a recipe sets
MaxFresh == 1      \* plain objects a recipe creates

----------------------------------------------------------------------------
(* Values *)

UNDEF == <<"undef", 0>>
NAN == <<"nan", 0>>
NEGZERO == <<"negz", 0>>
HOLE == <<"hole", 0>>
NOTHING == <<"nothing", 0>>
NOVALUE == <<"novalue", 0>>        \* a patch without a value field
Num(n) == <<"num", n>>
Str(n) == <<"str", n>>
Ref(o) == <<"obj", o>>
Dr(d) == <<"draft", d>>

LENGTH == Str(0)                   \* "length"
KA == Str(1)                       \* "a"
KX == Str(3)                       \* "x"
KZ == Str(4)                       \* "z", a key no base has
PROTO == Str(90)                   \* "__proto__"
CONSTRUCTOR == Str(91)             \* "constructor"
DASH == Str(92)                    \* "-"

NoPath == << <<"nopath", 0>> >>    \* path === undefined

\* x === y
StrictEq(x, y) ==
    IF x = NAN \/ y = NAN THEN FALSE
    ELSE IF x \in {Num(0), NEGZERO} /\ y \in {Num(0), NEGZERO} THEN TRUE
    ELSE x = y

\* a comparison that forgets that NaN equals itself
is_strict(x, y) == StrictEq(x, y)

is(x, y) ==
    IF StrictEq(x, y)
    THEN ~(x \in {Num(0), NEGZERO}) \/ x = y
    ELSE x = NAN /\ y = NAN

isDraft(v) == v[1] = "draft"

isDraftable(v) == v[1] \in {"obj", "draft"}

----------------------------------------------------------------------------
(* Plain containers *)

Obj(type, ents) == [type |-> type, ents |-> ents, frozen |-> FALSE]

\* SameValueZero, the key equality of Map and Set
SameKey(x, y) == x = y \/ (x \in {Num(0), NEGZERO} /\ y \in {Num(0), NEGZERO})

EntIdx(ents, k) ==
    IF \E i \in 1..Len(ents) : SameKey(ents[i][1], k) /\ ents[i][2] # HOLE
    THEN CHOOSE i \in 1..Len(ents) : SameKey(ents[i][1], k) /\ ents[i][2] # HOLE
    ELSE 0

\* own-property test (Map.prototype.has for a map)
oHas(o, k) == (o.type = "Array" /\ k = LENGTH) \/ EntIdx(o.ents, k) # 0

\* o[k] (Map.prototype.get for a map)
oGet(o, k) ==
    IF o.type = "Array" /\ k = LENGTH THEN Num(Len(o.ents))
    ELSE IF EntIdx(o.ents, k) # 0 THEN o.ents[EntIdx(o.ents, k)][2]
    ELSE UNDEF

Holes(from, to) == [i \in 1..(to - from) |-> <<Num(from + i - 1), HOLE>>]

\* o[k] = v (Map.prototype.set, Set.prototype.add)
oPut(o, k, v) ==
    CASE o.type = "Array" /\ k = LENGTH ->
            IF v[2] <= Len(o.ents) THEN SubSeq(o.ents, 1, v[2])
            ELSE o.ents \o Holes(Len(o.ents), v[2])
      [] o.type = "Array" /\ k # LENGTH ->
            IF k[2] < Len(o.ents) THEN [o.ents EXCEPT ![k[2] + 1] = <<k, v>>]
            ELSE o.ents \o Holes(Len(o.ents), k[2]) \o << <<k, v>> >>
      [] o.type = "Set" ->
            IF EntIdx(o.ents, v) # 0 THEN o.ents ELSE Append(o.ents, <<v, v>>)
      [] OTHER ->
            IF EntIdx(o.ents, k) # 0
            THEN [o.ents EXCEPT ![EntIdx(o.ents, k)] = <<k, v>>]
            ELSE Append(o.ents, <<k, v>>)

\* delete o[k] (Map.prototype.delete, Set.prototype.delete)
oDel(o, k) ==
    IF o.type = "Array"
    THEN IF k[1] = "num" /\ k[2] < Len(o.ents)
         THEN [o.ents EXCEPT ![k[2] + 1] = <<k, HOLE>>] ELSE o.ents
    ELSE SelectSeq(o.ents, LAMBDA e : ~SameKey(e[1], k))

\* the entries forEach / Reflect.ownKeys visit: holes are skipped
Present(ents) == SelectSeq(ents, LAMBDA e : e[2] # HOLE)

----------------------------------------------------------------------------
(* The world operators work on: the engine's whole state plus a pending error *)

World == [heap |-> heap, st |-> st, scopes |-> scopes, cur |-> currentScope,
          autoFreeze |-> autoFreeze, err |-> ""]

Throw(W, e) == [W EXCEPT !.err = e]
Ret(W, v) == [w |-> W, ret |-> v]

\* `const v = ...` followed by the code In that uses v
Let(v, In(_)) == In(v)

latest(s) == IF s.copy # 0 THEN s.copy ELSE s.base

getArchtype(W, v) == IF isDraft(v) THEN W.st[v[2]].type ELSE W.heap[v[2]].type

isFrozen(W, v) == v[1] = "obj" /\ W.heap[v[2]].frozen

shallowCopy(o) == Obj(o.type, o.ents)

----------------------------------------------------------------------------
(* Draft states and scopes *)

TRUEV == <<"bool", 1>>
FALSEV == <<"bool", 0>>

\* assigned_ ({} of a record/array draft, Map of a map draft) and drafts_ as a container
aObj(a) == [type |-> "Map", ents |-> a, frozen |-> FALSE]

createScope(parent) ==
    [drafts |-> <<>>, dead |-> FALSE, parent |-> parent, canAutoFreeze |-> TRUE,
     unfinalized |-> 0, listening |-> FALSE, patches |-> <<>>, inverse |-> <<>>]

enterScope(W) ==
    [W EXCEPT !.scopes = Append(@, createScope(W.cur)), !.cur = Len(W.scopes) + 1]

leaveScope(W, sc) ==
    IF sc = W.cur THEN [W EXCEPT !.cur = W.scopes[sc].parent] ELSE W

\* a revocation that only calls a proxy's revoke handle and skips the Map/Set flag
revokeDraft_proxyOnly(s) ==
    IF s.type \in {"Object", "Array"} THEN [s EXCEPT !.revoked = TRUE] ELSE s

revokeDraft(s) == [s EXCEPT !.revoked = TRUE]

revokeScope(W, sc) ==
    LET W1 == leaveScope(W, sc) IN
    [W1 EXCEPT !.st = [d \in 1..Len(W1.st) |->
                          IF \E i \in 1..Len(W1.scopes[sc].drafts) : W1.scopes[sc].drafts[i] = d
                          THEN revokeDraft(W1.st[d]) ELSE W1.st[d]],
               !.scopes[sc].dead = TRUE]

usePatchesInScope(W, sc, listener) ==
    IF listener
    THEN [W EXCEPT !.scopes[sc].listening = TRUE, !.scopes[sc].patches = <<>>,
                   !.scopes[sc].inverse = <<>>]
    ELSE W

\* loadPlugin: the plugins enableMapSet() and enablePatches() register
AllPlugins == {"MapSet", "Patches"}

\* the state createProxyProxy / DraftMap / DraftSet construct
NewState(type, base, parent, sc) ==
    [type |-> type, base |-> base, copy |-> 0, modified |-> FALSE, finalized |-> FALSE,
     isManual |-> FALSE, assigned |-> <<>>, drafts |-> <<>>, parent |-> parent,
     scope |-> sc, revoked |-> FALSE]

\* a draft registered with whatever scope is current, its parent's or not
createProxy_current(W, value, parent) ==
    LET sc == W.cur
        d == Len(W.st) + 1
    IN  IF sc = 0 \/ W.scopes[sc].dead
        THEN Ret(Throw(W, "TypeError"), UNDEF)
        ELSE Ret([W EXCEPT !.st = Append(@, NewState(W.heap[value[2]].type, value[2],
                                                       parent, sc)),
                           !.scopes[sc].drafts = Append(@, d)],
                 Dr(d))

createProxy(W, value, parent) ==
    LET sc == IF parent # 0 THEN W.st[parent].scope ELSE W.cur
        d == Len(W.st) + 1
    IN  IF sc = 0 \/ W.scopes[sc].dead
        THEN Ret(Throw(W, "TypeError"), UNDEF)         \* drafts_ is null / no scope
        ELSE Ret([W EXCEPT !.st = Append(@, NewState(W.heap[value[2]].type, value[2],
                                                       parent, sc)),
                           !.scopes[sc].drafts = Append(@, d)],
                 Dr(d))

Alloc(W, o) == [W EXCEPT !.heap = Append(@, o)]

\* a copy that is the base itself instead of a shallow copy of it
prepareCopy_alias(W, d) ==
    IF W.st[d].copy # 0 THEN W ELSE [W EXCEPT !.st[d].copy = W.st[d].base]

prepareCopy(W, d) ==
    IF W.st[d].copy # 0 THEN W
    ELSE [Alloc(W, shallowCopy(W.heap[W.st[d].base])) EXCEPT !.st[d].copy = Len(W.heap) + 1]

prepareMapCopy(W, d) ==
    IF W.st[d].copy # 0 THEN W
    ELSE [Alloc(W, shallowCopy(W.heap[W.st[d].base]))
            EXCEPT !.st[d].copy = Len(W.heap) + 1, !.st[d].assigned = <<>>]

RECURSIVE markChanged(_, _)
\* a flag set on the draft alone, its ancestors left for later
markChanged_local(W, d) == [W EXCEPT !.st[d].modified = TRUE]

markChanged(W, d) ==
    IF W.st[d].modified THEN W
    ELSE LET W1 == [W EXCEPT !.st[d].modified = TRUE] IN
         IF W.st[d].parent # 0 THEN markChanged(W1, W.st[d].parent) ELSE W1

\* copy_[k] = v, Map/Set copy_.set / add
CopyPut(W, d, k, v) ==
    [W EXCEPT !.heap[W.st[d].copy].ents = oPut(W.heap[W.st[d].copy], k, v)]

CopyDel(W, d, k) ==
    [W EXCEPT !.heap[W.st[d].copy].ents = oDel(W.heap[W.st[d].copy], k)]

Assign(W, d, k, b) ==
    [W EXCEPT !.st[d].assigned = oPut(aObj(@), k, b)]

Unassign(W, d, k) ==
    [W EXCEPT !.st[d].assigned = oDel(aObj(@), k)]

Latest(W, d) == W.heap[latest(W.st[d])]
Base(W, d) == W.heap[W.st[d].base]

----------------------------------------------------------------------------
(* Interception layer: records and sequences (objectTraps / arrayTraps) *)

\* a read that marks the draft changed when it drafts a child
objectTraps_get_marks(W, d, prop) ==
    LET s == W.st[d]
        source == Latest(W, d)
        value == oGet(source, prop)
    IN  IF ~oHas(source, prop) THEN Ret(W, UNDEF)
        ELSE IF s.finalized \/ ~isDraftable(value) THEN Ret(W, value)
        ELSE IF StrictEq(value, oGet(Base(W, d), prop))
        THEN Let(createProxy(markChanged(prepareCopy(W, d), d), value, d), LAMBDA r :
                 IF r.w.err # "" THEN r ELSE Ret(CopyPut(r.w, d, prop, r.ret), r.ret))
        ELSE Ret(W, value)

\* a read that drafts a child without allocating the copy that holds it
objectTraps_get_noCopy(W, d, prop) ==
    LET s == W.st[d]
        source == Latest(W, d)
        value == oGet(source, prop)
    IN  IF ~oHas(source, prop) THEN Ret(W, UNDEF)
        ELSE IF s.finalized \/ ~isDraftable(value) THEN Ret(W, value)
        ELSE IF StrictEq(value, oGet(Base(W, d), prop)) THEN createProxy(W, value, d)
        ELSE Ret(W, value)

objectTraps_get(W, d, prop) ==
    LET s == W.st[d]
        source == Latest(W, d)
        value == oGet(source, prop)
    IN  IF ~oHas(source, prop) THEN Ret(W, UNDEF)            \* readPropFromProto
        ELSE IF s.finalized \/ ~isDraftable(value) THEN Ret(W, value)
        ELSE IF StrictEq(value, oGet(Base(W, d), prop))
        THEN Let(createProxy(prepareCopy(W, d), value, d), LAMBDA r :
                 IF r.w.err # "" THEN r ELSE Ret(CopyPut(r.w, d, prop, r.ret), r.ret))
        ELSE Ret(W, value)

objectTraps_has(W, d, prop) == Ret(W, IF oHas(Latest(W, d), prop) THEN TRUEV ELSE FALSEV)

\* the part of objectTraps.set after the `if (!state.modified_)` block
setStore(W, d, prop, value) ==
    LET copy == W.heap[W.st[d].copy] IN
    IF (StrictEq(oGet(copy, prop), value) /\ (value # UNDEF \/ oHas(copy, prop)))
       \/ (value = NAN /\ oGet(copy, prop) = NAN)
    THEN W
    ELSE Assign(CopyPut(W, d, prop, value), d, prop, TRUEV)

\* a property found with an accessor on the prototype chain is set through that
\* accessor: __proto__ of Object.prototype, whose setter calls the setPrototypeOf
\* trap (die(12)) for an object and ignores a primitive
objectTraps_set(W, d, prop, value) ==
    LET s == W.st[d]
        current == oGet(Latest(W, d), prop)
    IN  IF prop = PROTO
        THEN IF isDraftable(value) THEN Throw(W, "SetPrototypeOf") ELSE W
        ELSE IF ~s.modified
        THEN IF isDraft(current) /\ Ref(W.st[current[2]].base) = value
             THEN IF s.copy = 0 THEN Throw(W, "TypeError")
                  ELSE Assign(CopyPut(W, d, prop, value), d, prop, FALSEV)
             ELSE IF is(value, current) /\ (value # UNDEF \/ oHas(Base(W, d), prop))
             THEN W
             ELSE setStore(markChanged(prepareCopy(W, d), d), d, prop, value)
        ELSE setStore(W, d, prop, value)

\* a deleteProperty trap that records every deleted key as deleted and modified
objectTraps_deleteProperty_mark(W, d, prop) ==
    CopyDel(markChanged(prepareCopy(Assign(W, d, prop, FALSEV), d), d), d, prop)

\* peek(base, prop) and prop in base see the inherited __proto__ and constructor
objectTraps_deleteProperty(W, d, prop) ==
    Let(IF oGet(Base(W, d), prop) # UNDEF \/ oHas(Base(W, d), prop)
           \/ prop \in {PROTO, CONSTRUCTOR}
        THEN markChanged(prepareCopy(Assign(W, d, prop, FALSEV), d), d)
        ELSE Unassign(W, d, prop),
        LAMBDA W1 : IF W1.st[d].copy # 0 THEN CopyDel(W1, d, prop) ELSE W1)

\* arrayTraps.set: only indices and "length"
arrayTraps_set(W, d, prop, value) ==
    IF prop # LENGTH /\ prop[1] # "num" THEN Throw(W, "UnsupportedOperation")
    ELSE objectTraps_set(W, d, prop, value)

\* arrayTraps.deleteProperty: only indices; the same as setting undefined
arrayTraps_deleteProperty(W, d, prop) ==
    IF prop[1] # "num" THEN Throw(W, "UnsupportedOperation")
    ELSE arrayTraps_set(W, d, prop, UNDEF)

----------------------------------------------------------------------------
(* Interception layer: keyed maps and unique sets (DraftMap / DraftSet) *)

assertUnrevoked(W, d) == IF W.st[d].revoked THEN Throw(W, "ProxyRevoked") ELSE W

DraftMap_size(W, d) == Ret(W, Num(Len(Latest(W, d).ents)))

DraftMap_has(W, d, key) == Ret(W, IF oHas(Latest(W, d), key) THEN TRUEV ELSE FALSEV)

DraftMap_keys(W, d) == Ret(W, Num(Len(Latest(W, d).ents)))

DraftMap_set(W, d, key, value) ==
    IF assertUnrevoked(W, d).err # "" THEN Ret(assertUnrevoked(W, d), UNDEF)
    ELSE IF ~oHas(Latest(W, d), key) \/ ~StrictEq(oGet(Latest(W, d), key), value)
    THEN Ret(Assign(CopyPut(Assign(markChanged(prepareMapCopy(W, d), d), d, key, TRUEV),
                            d, key, value),
                    d, key, TRUEV),
             Dr(d))
    ELSE Ret(W, Dr(d))

DraftMap_delete(W, d, key) ==
    IF DraftMap_has(W, d, key).ret = FALSEV THEN Ret(W, FALSEV)
    ELSE IF assertUnrevoked(W, d).err # "" THEN Ret(assertUnrevoked(W, d), UNDEF)
    ELSE Let(markChanged(prepareMapCopy(W, d), d), LAMBDA W1 :
             Ret(CopyDel(IF oHas(Base(W, d), key) THEN Assign(W1, d, key, FALSEV)
                         ELSE Unassign(W1, d, key),
                         d, key),
                 TRUEV))

DraftMap_clear(W, d) ==
    IF assertUnrevoked(W, d).err # "" THEN Ret(assertUnrevoked(W, d), UNDEF)
    ELSE IF Len(Latest(W, d).ents) # 0
    THEN Let(markChanged(prepareMapCopy(W, d), d), LAMBDA W1 :
             Ret([W1 EXCEPT !.st[d].assigned = [i \in 1..Len(Base(W, d).ents) |->
                                                  <<Base(W, d).ents[i][1], FALSEV>>],
                            !.heap[W1.st[d].copy].ents = <<>>],
                 UNDEF))
    ELSE Ret(W, UNDEF)

\* a get that drafts whatever draftable value it finds, the base's or not
DraftMap_get_always(W, d, key) ==
    LET s == W.st[d]
        value == oGet(Latest(W, d), key)
    IN  IF assertUnrevoked(W, d).err # "" THEN Ret(assertUnrevoked(W, d), UNDEF)
        ELSE IF s.finalized \/ value[1] # "obj" THEN Ret(W, value)
        ELSE Let(createProxy(W, value, d), LAMBDA r :
                 IF r.w.err # "" THEN r
                 ELSE Ret(CopyPut(prepareMapCopy(r.w, d), d, key, r.ret), r.ret))

DraftMap_get(W, d, key) ==
    LET s == W.st[d]
        value == oGet(Latest(W, d), key)
    IN  IF assertUnrevoked(W, d).err # "" THEN Ret(assertUnrevoked(W, d), UNDEF)
        ELSE IF s.finalized \/ ~isDraftable(value) THEN Ret(W, value)
        ELSE IF ~StrictEq(value, oGet(Base(W, d), key)) THEN Ret(W, value)
        ELSE Let(createProxy(W, value, d), LAMBDA r :
                 IF r.w.err # "" THEN r
                 ELSE Ret(CopyPut(prepareMapCopy(r.w, d), d, key, r.ret), r.ret))

\* forEach / values / entries / [Symbol.iterator], run to the end: get(key) per key
RECURSIVE MapIterate(_, _, _, _)
MapIterate(W, d, keys, i) ==
    IF i > Len(keys) \/ W.err # "" THEN W
    ELSE MapIterate(DraftMap_get(W, d, keys[i]).w, d, keys, i + 1)

DraftMap_forEach(W, d) ==
    LET src == Latest(W, d).ents IN
    Ret(MapIterate(W, d, [i \in 1..Len(src) |-> src[i][1]], 1), UNDEF)

\* prepareSetCopy's loop over base_
RECURSIVE SetCopyLoop(_, _, _)
SetCopyLoop(W, d, i) ==
    LET base == Base(W, d).ents IN
    IF i > Len(base) \/ W.err # "" THEN W
    ELSE LET value == base[i][2] IN
         IF isDraftable(value)
         THEN Let(createProxy(W, value, d), LAMBDA r :
                  IF r.w.err # "" THEN r.w
                  ELSE SetCopyLoop(
                         CopyPut([r.w EXCEPT !.st[d].drafts = oPut(aObj(@), value, r.ret)],
                                 d, r.ret, r.ret),
                         d, i + 1))
         ELSE SetCopyLoop(CopyPut(W, d, value, value), d, i + 1)

prepareSetCopy(W, d) ==
    IF W.st[d].copy # 0 THEN W
    ELSE SetCopyLoop([Alloc(W, Obj("Set", <<>>)) EXCEPT !.st[d].copy = Len(W.heap) + 1], d, 1)

DraftSet_size(W, d) == Ret(W, Num(Len(Latest(W, d).ents)))

DraftSet_has(W, d, value) ==
    LET s == W.st[d] IN
    IF assertUnrevoked(W, d).err # "" THEN Ret(assertUnrevoked(W, d), UNDEF)
    ELSE IF s.copy = 0 THEN Ret(W, IF oHas(Base(W, d), value) THEN TRUEV ELSE FALSEV)
    ELSE IF oHas(W.heap[s.copy], value) THEN Ret(W, TRUEV)
    ELSE IF oHas(aObj(s.drafts), value) /\ oHas(W.heap[s.copy], oGet(aObj(s.drafts), value))
    THEN Ret(W, TRUEV)
    ELSE Ret(W, FALSEV)

\* a set draft's add that copies and marks before it tests membership
DraftSet_add_eager(W, d, value) ==
    IF assertUnrevoked(W, d).err # "" THEN Ret(assertUnrevoked(W, d), UNDEF)
    ELSE Let(markChanged(prepareSetCopy(W, d), d), LAMBDA W1 :
             IF DraftSet_has(W1, d, value).ret = FALSEV
             THEN Ret(CopyPut(W1, d, value, value), Dr(d))
             ELSE Ret(W1, Dr(d)))

DraftSet_add(W, d, value) ==
    IF assertUnrevoked(W, d).err # "" THEN Ret(assertUnrevoked(W, d), UNDEF)
    ELSE IF DraftSet_has(W, d, value).ret = FALSEV
    THEN Ret(CopyPut(markChanged(prepareSetCopy(W, d), d), d, value, value), Dr(d))
    ELSE Ret(W, Dr(d))

DraftSet_delete(W, d, value) ==
    Let(DraftSet_has(W, d, value), LAMBDA h :
        IF h.w.err # "" THEN h
        ELSE IF h.ret = FALSEV THEN Ret(W, FALSEV)
        ELSE Let(markChanged(prepareSetCopy(W, d), d), LAMBDA W1 :
                 LET copy == W1.heap[W1.st[d].copy]
                     drafts == aObj(W1.st[d].drafts)
                 IN  IF oHas(copy, value) THEN Ret(CopyDel(W1, d, value), TRUEV)
                     ELSE IF oHas(drafts, value)
                     THEN Ret(CopyDel(W1, d, oGet(drafts, value)),
                              IF oHas(copy, oGet(drafts, value)) THEN TRUEV ELSE FALSEV)
                     ELSE Ret(W1, FALSEV)))

DraftSet_clear(W, d) ==
    IF assertUnrevoked(W, d).err # "" THEN Ret(assertUnrevoked(W, d), UNDEF)
    ELSE IF Len(Latest(W, d).ents) # 0
    THEN Let(markChanged(prepareSetCopy(W, d), d), LAMBDA W1 :
             Ret([W1 EXCEPT !.heap[W1.st[d].copy].ents = <<>>], UNDEF))
    ELSE Ret(W, UNDEF)

\* values / entries / keys / [Symbol.iterator] / forEach
DraftSet_values(W, d) ==
    IF assertUnrevoked(W, d).err # "" THEN Ret(assertUnrevoked(W, d), UNDEF)
    ELSE Ret(prepareSetCopy(W, d), UNDEF)

----------------------------------------------------------------------------
(* Reading a property of any value: through the traps for a draft *)

proxyGet(W, d, prop) ==
    IF W.st[d].type \in {"Object", "Array"}
    THEN IF W.st[d].revoked THEN Ret(Throw(W, "ProxyRevoked"), UNDEF)   \* Proxy.revocable
         ELSE objectTraps_get(W, d, prop)
    ELSE DraftMap_get(W, d, prop)

\* get(thing, prop) of utils/common
get(W, thing, prop) ==
    IF isDraft(thing) THEN proxyGet(W, thing[2], prop)
    ELSE Ret(W, oGet(W.heap[thing[2]], prop))

\* the keys an iteration over a value visits (a set draft iterates its copy)
IterKeys(W, v) ==
    LET ents == Present(IF isDraft(v) THEN Latest(W, v[2]).ents ELSE W.heap[v[2]].ents)
    IN  [i \in 1..Len(ents) |-> ents[i][1]]

----------------------------------------------------------------------------
(* Patch generator (plugins/patches) *)

Patch(op, path, value) == [op |-> op, path |-> path, value |-> value]

RECURSIVE deepClonePatchValue(_, _), cloneEntries(_, _, _, _, _)

\* clones the entries keys[i..] of obj into acc, threading the world
cloneEntries(W, obj, keys, i, acc) ==
    IF i > Len(keys) \/ W.err # "" THEN [w |-> W, ret |-> acc]
    ELSE Let(getArchtype(W, obj) = "Set", LAMBDA isSet :
         Let(IF isSet THEN Ret(W, keys[i]) ELSE get(W, obj, keys[i]), LAMBDA r :
         Let(IF r.w.err # "" THEN r ELSE deepClonePatchValue(r.w, r.ret), LAMBDA c :
             cloneEntries(c.w, obj, keys, i + 1,
                          Append(acc, IF isSet THEN <<c.ret, c.ret>>
                                      ELSE <<keys[i], c.ret>>)))))

deepClonePatchValue(W, obj) ==
    IF ~isDraftable(obj) THEN Ret(W, obj)
    ELSE Let(getArchtype(W, obj), LAMBDA type :
         Let(IF isDraft(obj) /\ type = "Set" THEN DraftSet_values(W, obj[2]).w ELSE W,
             LAMBDA W0 :
         Let(IF isDraft(obj) THEN Latest(W0, obj[2]).ents ELSE W0.heap[obj[2]].ents,
             LAMBDA src :
         Let(cloneEntries(W0, obj, IterKeys(W0, obj), 1, <<>>), LAMBDA r :
             IF r.w.err # "" THEN Ret(r.w, UNDEF)
             ELSE Ret(Alloc(r.w,
                            Obj(type,
                                IF type = "Array"
                                THEN [i \in 1..Len(src) |->
                                        IF src[i][2] = HOLE THEN src[i]
                                        ELSE r.ret[Cardinality({j \in 1..i :
                                                                  src[j][2] # HOLE})]]
                                ELSE r.ret)),
                      Ref(Len(r.w.heap) + 1))))))

clonePatchValueIfNeeded(W, obj) ==
    IF isDraft(obj) THEN deepClonePatchValue(W, obj) ELSE Ret(W, obj)

Push(W, rs, list, patch) ==
    IF list = "patches" THEN [W EXCEPT !.scopes[rs].patches = Append(@, patch)]
    ELSE [W EXCEPT !.scopes[rs].inverse = Append(@, patch)]

Unshift(W, rs, patch) == [W EXCEPT !.scopes[rs].inverse = <<patch>> \o @]

\* push {op, path, value: clonePatchValueIfNeeded(value)}
PushCloned(W, rs, list, op, path, value) ==
    Let(clonePatchValueIfNeeded(W, value), LAMBDA c :
        IF c.w.err # "" THEN c.w ELSE Push(c.w, rs, list, Patch(op, path, c.ret)))

RECURSIVE arrayReplaceLoop(_, _, _, _, _, _, _, _, _)
arrayReplaceLoop(W, rs, assigned, base_, copy_, P, IP, basePath, i) ==
    IF i >= Len(base_) \/ W.err # "" THEN W
    ELSE LET b == oGet(Obj("Array", base_), Num(i))
             c == oGet(Obj("Array", copy_), Num(i))
             path == Append(basePath, Num(i))
         IN  arrayReplaceLoop(
               IF oGet(aObj(assigned), Num(i)) = TRUEV /\ ~StrictEq(c, b)
               THEN PushCloned(PushCloned(W, rs, P, "replace", path, c),
                               rs, IP, "replace", path, b)
               ELSE W,
               rs, assigned, base_, copy_, P, IP, basePath, i + 1)

RECURSIVE arrayAddLoop(_, _, _, _, _, _, _)
arrayAddLoop(W, rs, copy_, P, basePath, i, n) ==
    IF i >= n \/ W.err # "" THEN W
    ELSE arrayAddLoop(PushCloned(W, rs, P, "add", Append(basePath, Num(i)),
                                 oGet(Obj("Array", copy_), Num(i))),
                      rs, copy_, P, basePath, i + 1, n)

RECURSIVE arrayRemoveLoop_up(_, _, _, _, _, _)
\* a removal loop that counts upwards from the new length
arrayRemoveLoop_up(W, rs, IP, basePath, i, lo) ==
    IF i < lo THEN W
    ELSE arrayRemoveLoop_up(Push(W, rs, IP, Patch("remove", Append(basePath, Num(lo)), NOVALUE)),
                            rs, IP, basePath, i, lo + 1)

RECURSIVE arrayRemoveLoop(_, _, _, _, _, _)
arrayRemoveLoop(W, rs, IP, basePath, i, lo) ==
    IF i < lo THEN W
    ELSE arrayRemoveLoop(Push(W, rs, IP, Patch("remove", Append(basePath, Num(i)), NOVALUE)),
                         rs, IP, basePath, i - 1, lo)

generateArrayPatches(W, d, basePath, rs) ==
    LET b0 == Base(W, d).ents
        c0 == W.heap[W.st[d].copy].ents
        swap == Len(c0) < Len(b0)
        base_ == IF swap THEN c0 ELSE b0
        copy_ == IF swap THEN b0 ELSE c0
        P == IF swap THEN "inverse" ELSE "patches"
        IP == IF swap THEN "patches" ELSE "inverse"
    IN  Let(arrayAddLoop(
              arrayReplaceLoop(W, rs, W.st[d].assigned, base_, copy_, P, IP, basePath, 0),
              rs, copy_, P, basePath, Len(base_), Len(copy_)),
            LAMBDA W2 :
              IF W2.err # "" THEN W2
              ELSE arrayRemoveLoop(W2, rs, IP, basePath, Len(copy_) - 1, Len(base_)))

RECURSIVE assignedLoop(_, _, _, _, _)
assignedLoop(W, d, basePath, rs, i) ==
    LET assigned == W.st[d].assigned IN
    IF i > Len(assigned) \/ W.err # "" THEN W
    ELSE LET key == assigned[i][1]
             origValue == oGet(Base(W, d), key)
             value == oGet(W.heap[W.st[d].copy], key)
             op == IF assigned[i][2] # TRUEV THEN "remove"
                   ELSE IF oHas(Base(W, d), key) THEN "replace" ELSE "add"
             path == Append(basePath, key)
             W1 == Push(W, rs, "patches",
                        IF op = "remove" THEN Patch(op, path, NOVALUE)
                        ELSE Patch(op, path, value))
         IN  assignedLoop(
               IF StrictEq(origValue, value) /\ op = "replace" THEN W
               ELSE IF op = "add" THEN Push(W1, rs, "inverse", Patch("remove", path, NOVALUE))
               ELSE IF op = "remove" THEN PushCloned(W1, rs, "inverse", "add", path, origValue)
               ELSE PushCloned(W1, rs, "inverse", "replace", path, origValue),
               d, basePath, rs, i + 1)

generatePatchesFromAssigned(W, d, basePath, rs) == assignedLoop(W, d, basePath, rs, 1)

RECURSIVE setPatchLoop(_, _, _, _, _, _, _, _)
\* one pass of generateSetPatches: the elements of `from` missing from `other`
setPatchLoop(W, rs, from, other, op, inverseOp, basePath, i) ==
    IF i > Len(from) THEN W
    ELSE LET value == from[i][2]
             path == Append(basePath, Num(i - 1))
         IN  setPatchLoop(
               IF ~oHas(Obj("Set", other), value)
               THEN Unshift(Push(W, rs, "patches", Patch(op, path, value)),
                            rs, Patch(inverseOp, path, value))
               ELSE W,
               rs, from, other, op, inverseOp, basePath, i + 1)

generateSetPatches(W, d, basePath, rs) ==
    LET base_ == Base(W, d).ents
        copy_ == W.heap[W.st[d].copy].ents
    IN  setPatchLoop(setPatchLoop(W, rs, base_, copy_, "remove", "add", basePath, 1),
                     rs, copy_, base_, "add", "remove", basePath, 1)

generatePatches_(W, d, basePath, rs) ==
    CASE W.st[d].type \in {"Object", "Map"} -> generatePatchesFromAssigned(W, d, basePath, rs)
      [] W.st[d].type = "Array" -> generateArrayPatches(W, d, basePath, rs)
      [] W.st[d].type = "Set" -> generateSetPatches(W, d, basePath, rs)

\* a replacement patch that carries the sentinel itself
generateReplacementPatches_keepNothing(W, rs, baseValue, replacement) ==
    Push(Push(W, rs, "patches", Patch("replace", <<>>, replacement)),
         rs, "inverse", Patch("replace", <<>>, baseValue))

generateReplacementPatches_(W, rs, baseValue, replacement) ==
    Push(Push(W, rs, "patches",
              Patch("replace", <<>>, IF replacement = NOTHING THEN UNDEF ELSE replacement)),
         rs, "inverse", Patch("replace", <<>>, baseValue))

----------------------------------------------------------------------------
(* Finalization engine (core/finalize) *)

RECURSIVE freeze(_, _, _), freezeValues(_, _, _)

\* Object.values(obj).forEach(value => freeze(value, true))
freezeValues(W, vals, i) ==
    IF i > Len(vals) THEN W ELSE freezeValues(freeze(W, vals[i][2], TRUE), vals, i + 1)

freeze(W, v, deep) ==
    IF v[1] # "obj" \/ isFrozen(W, v) THEN W
    ELSE LET W1 == [W EXCEPT !.heap[v[2]].frozen = TRUE] IN
         IF deep /\ W.heap[v[2]].type \in {"Object", "Array"}
         THEN freezeValues(W1, Present(W.heap[v[2]].ents), 1)
         ELSE W1

maybeFreeze(W, sc, value, deep) ==
    IF W.scopes[sc].parent = 0 /\ W.autoFreeze /\ W.scopes[sc].canAutoFreeze
    THEN freeze(W, value, deep)
    ELSE W

\* set(thing, propOrOldValue, value) of utils/common, on a plain container
set(W, target, prop, value) ==
    [W EXCEPT !.heap[target].ents = oPut(W.heap[target], prop, value)]

\* an unmodified draft that finalizes to its copy when it has one
finalizeUnmodified_latest(W, rootScope, s) ==
    Ret(maybeFreeze(W, rootScope, Ref(latest(s)), TRUE), Ref(latest(s)))

\* finalize of an unmodified draft: `if (!state.modified_)` freezes and returns base_
finalizeUnmodified(W, rootScope, s) ==
    Ret(maybeFreeze(W, rootScope, Ref(s.base), TRUE), Ref(s.base))

RECURSIVE finalize(_, _, _, _), finalizeProperty(_, _, _, _, _, _, _, _),
          finalizeEach(_, _, _, _, _, _, _, _)

\* each(resultEach, (key, childValue) => finalizeProperty(...)), from item i on
finalizeEach(W, rootScope, parentState, target, items, i, path, isSet) ==
    IF i > Len(items) \/ W.err # "" THEN W
    ELSE finalizeEach(
           finalizeProperty(W, rootScope, parentState, target, items[i][1],
                            IF isSet THEN items[i][2]
                            ELSE oGet(W.heap[target], items[i][1]),
                            path, isSet),
           rootScope, parentState, target, items, i + 1, path, isSet)

finalize(W, rootScope, value, path) ==
    IF isFrozen(W, value) THEN Ret(W, value)
    ELSE IF ~isDraft(value)
    THEN Ret(finalizeEach(W, rootScope, 0, value[2], Present(W.heap[value[2]].ents), 1,
                          path, FALSE),
             value)
    ELSE LET d == value[2]
             s == W.st[d]
         IN  IF s.scope # rootScope THEN Ret(W, value)
             ELSE IF ~s.modified
             THEN finalizeUnmodified(W, rootScope, s)
             ELSE IF ~s.finalized
             THEN LET W1 == [W EXCEPT !.st[d].finalized = TRUE,
                                      !.scopes[s.scope].unfinalized = @ - 1]
                      isSet == s.type = "Set"
                      resultEach == Present(W.heap[s.copy].ents)
                      W2 == IF isSet THEN [W1 EXCEPT !.heap[s.copy].ents = <<>>] ELSE W1
                  IN  Let(finalizeEach(W2, rootScope, d, s.copy, resultEach, 1, path, isSet),
                          LAMBDA W3 :
                      IF W3.err # "" THEN Ret(W3, UNDEF)
                      ELSE Let(maybeFreeze(W3, rootScope, Ref(s.copy), FALSE), LAMBDA W4 :
                           IF path # NoPath /\ W4.scopes[rootScope].listening
                           THEN Ret(generatePatches_(W4, d, path, rootScope), Ref(s.copy))
                           ELSE Ret(W4, Ref(s.copy))))
             ELSE Ret(W, Ref(s.copy))

\* the tail of finalizeProperty: drafts buried in fresh plain structure, and freezing
finalizeRest(W, rootScope, parentState, target, prop, childValue) ==
    IF isDraftable(childValue) /\ ~isFrozen(W, childValue)
    THEN IF ~W.autoFreeze /\ W.scopes[rootScope].unfinalized < 1 THEN W
         ELSE Let(finalize(W, rootScope, childValue, NoPath).w, LAMBDA W1 :
              IF W1.err # "" THEN W1
              ELSE IF (parentState = 0 \/ W1.scopes[W1.st[parentState].scope].parent = 0)
                      /\ W1.heap[target].type \in {"Object", "Array"}
                      /\ oHas(W1.heap[target], prop)
              THEN maybeFreeze(W1, rootScope, childValue, FALSE)
              ELSE W1)
    ELSE W

\* a finalizeProperty that does not put the plain elements back into a cleared set
finalizeProperty_skipAdd(W, rootScope, parentState, target, prop, childValue, rootPath, targetIsSet) ==
    IF isDraft(childValue)
    THEN Let(finalize(W, rootScope, childValue, NoPath), LAMBDA r :
             IF r.w.err # "" THEN r.w ELSE set(r.w, target, prop, r.ret))
    ELSE finalizeRest(W, rootScope, parentState, target, prop, childValue)

\* a finalizeProperty that extends the patch path through every key and element
finalizeProperty_deepPath(W, rootScope, parentState, target, prop, childValue, rootPath, targetIsSet) ==
    IF childValue = Ref(target) THEN Throw(W, "CircularReference")
    ELSE IF isDraft(childValue)
    THEN LET path == IF rootPath # NoPath /\ parentState # 0
                     THEN Append(rootPath, prop) ELSE NoPath
         IN  Let(finalize(W, rootScope, childValue, path), LAMBDA r :
             IF r.w.err # "" THEN r.w
             ELSE IF isDraft(r.ret)
             THEN finalizeRest([set(r.w, target, prop, r.ret)
                                  EXCEPT !.scopes[rootScope].canAutoFreeze = FALSE],
                               rootScope, parentState, target, prop, childValue)
             ELSE set(r.w, target, prop, r.ret))
    ELSE finalizeRest(IF targetIsSet THEN set(W, target, prop, childValue) ELSE W,
                      rootScope, parentState, target, prop, childValue)

finalizeProperty(W, rootScope, parentState, target, prop, childValue, rootPath, targetIsSet) ==
    IF childValue = Ref(target) THEN Throw(W, "CircularReference")
    ELSE IF isDraft(childValue)
    THEN LET path == IF rootPath # NoPath /\ parentState # 0
                        /\ W.st[parentState].type # "Set"
                        /\ ~oHas(aObj(W.st[parentState].assigned), prop)
                     THEN Append(rootPath, prop) ELSE NoPath
         IN  Let(finalize(W, rootScope, childValue, path), LAMBDA r :
             IF r.w.err # "" THEN r.w
             ELSE IF isDraft(r.ret)
             THEN finalizeRest([set(r.w, target, prop, r.ret)
                                  EXCEPT !.scopes[rootScope].canAutoFreeze = FALSE],
                               rootScope, parentState, target, prop, childValue)
             ELSE set(r.w, target, prop, r.ret))
    ELSE finalizeRest(IF targetIsSet THEN set(W, target, prop, childValue) ELSE W,
                      rootScope, parentState, target, prop, childValue)

\* the patch listener's call in world W: live = the drafts of the scope it can still use
listenerCall(W, sc) ==
    [called |-> W.scopes[sc].listening,
     live |-> {d \in 1..Len(W.st) : W.st[d].scope = sc /\ ~W.st[d].revoked}]

NotCalled == [called |-> FALSE, live |-> {}]

\* an end of processResult that calls the listener before it revokes the scope
processResultEnd_early(r, sc) ==
    IF r.w.err # "" THEN [w |-> r.w, ret |-> UNDEF, listener |-> NotCalled]
    ELSE [w |-> revokeScope(r.w, sc),
          ret |-> IF r.ret # NOTHING THEN r.ret ELSE UNDEF,
          listener |-> IF r.w.scopes[sc].listening THEN listenerCall(r.w, sc)
                       ELSE NotCalled]

\* the end of processResult: revokeScope, the listener call, the NOTHING conversion
processResultEnd(r, sc) ==
    IF r.w.err # "" THEN [w |-> r.w, ret |-> UNDEF, listener |-> NotCalled]
    ELSE Let(revokeScope(r.w, sc), LAMBDA W1 :
             [w |-> W1,
              ret |-> IF r.ret # NOTHING THEN r.ret ELSE UNDEF,
              listener |-> IF W1.scopes[sc].listening THEN listenerCall(W1, sc)
                           ELSE NotCalled])

\* processResult on a replacement: finalize, maybeFreeze, generateReplacementPatches_
processReplacement(W0, result, sc, baseDraft) ==
    Let(IF isDraftable(result)
        THEN Let(finalize(W0, sc, result, NoPath), LAMBDA f :
                 IF f.w.err # "" \/ f.w.scopes[sc].parent # 0 THEN f
                 ELSE Ret(maybeFreeze(f.w, sc, f.ret, FALSE), f.ret))
        ELSE Ret(W0, result),
        LAMBDA r1 :
          IF r1.w.err = "" /\ r1.w.scopes[sc].listening
          THEN Ret(generateReplacementPatches_(r1.w, sc, Ref(r1.w.st[baseDraft[2]].base),
                                               r1.ret),
                   r1.ret)
          ELSE r1)

\* a failure that leaves the scope's drafts usable
modifiedAndReturned_keepScope(W, sc) == Throw(W, "ModifiedAndReturned")

\* processResult on a modified draft and a replacement: revokeScope(scope); die(4)
modifiedAndReturned(W, sc) == Throw(revokeScope(W, sc), "ModifiedAndReturned")

\* processResult: [w, ret, listener]; listener = the patch listener's call, if any
processResult(W, result, sc) ==
    LET scope == W.scopes[sc]
        W0 == [W EXCEPT !.scopes[sc].unfinalized = Len(scope.drafts)]
        baseDraft == Dr(scope.drafts[1])
        isReplaced == result # UNDEF /\ result # baseDraft
    IN  IF scope.dead THEN [w |-> Throw(W, "TypeError"), ret |-> UNDEF, listener |-> NotCalled]
        ELSE IF isReplaced
        THEN IF W0.st[baseDraft[2]].modified
             THEN [w |-> modifiedAndReturned(W0, sc), ret |-> UNDEF, listener |-> NotCalled]
             ELSE processResultEnd(processReplacement(W0, result, sc, baseDraft), sc)
        ELSE processResultEnd(finalize(W0, sc, baseDraft, <<>>), sc)

\* a finally block that leaves the scope without revoking its drafts
produceFailed_leave(W, sc) == leaveScope(W, sc)

\* Immer.produce when the recipe threw: finally { if (hasError) revokeScope(scope) }
produceFailed(W, sc) == revokeScope(W, sc)

----------------------------------------------------------------------------
(* Operations of user code and of the patch applier on any value: a draft goes *)
(* through its traps / methods, a plain container is changed in place          *)

Revoked(W, d) == W.st[d].revoked

\* thing[prop] = value
assign(W, thing, prop, value) ==
    IF ~isDraft(thing)
    THEN IF W.heap[thing[2]].frozen THEN Throw(W, "TypeError")
         ELSE set(W, thing[2], prop, value)
    ELSE IF Revoked(W, thing[2]) THEN Throw(W, "ProxyRevoked")
    ELSE IF W.st[thing[2]].type = "Array" THEN arrayTraps_set(W, thing[2], prop, value)
    ELSE objectTraps_set(W, thing[2], prop, value)

\* delete thing[prop]
deleteProp(W, thing, prop) ==
    IF ~isDraft(thing)
    THEN IF W.heap[thing[2]].frozen THEN Throw(W, "TypeError")
         ELSE [W EXCEPT !.heap[thing[2]].ents = oDel(W.heap[thing[2]], prop)]
    ELSE IF Revoked(W, thing[2]) THEN Throw(W, "ProxyRevoked")
    ELSE IF W.st[thing[2]].type = "Array" THEN arrayTraps_deleteProperty(W, thing[2], prop)
    ELSE objectTraps_deleteProperty(W, thing[2], prop)

\* prop in thing
hasProp(W, thing, prop) ==
    IF isDraft(thing) THEN objectTraps_has(W, thing[2], prop).ret = TRUEV
    ELSE oHas(W.heap[thing[2]], prop)

\* thing.set(key, value) on a map
mapSet(W, thing, key, value) ==
    IF isDraft(thing) THEN DraftMap_set(W, thing[2], key, value).w
    ELSE IF W.heap[thing[2]].frozen THEN Throw(W, "FrozenMutation")
    ELSE set(W, thing[2], key, value)

\* thing.delete(key) on a map or a set
collDelete(W, thing, key) ==
    IF isDraft(thing)
    THEN IF W.st[thing[2]].type = "Map" THEN DraftMap_delete(W, thing[2], key).w
         ELSE DraftSet_delete(W, thing[2], key).w
    ELSE IF W.heap[thing[2]].frozen THEN Throw(W, "FrozenMutation")
    ELSE [W EXCEPT !.heap[thing[2]].ents = oDel(W.heap[thing[2]], key)]

\* thing.add(value) on a set
setAdd(W, thing, value) ==
    IF isDraft(thing) THEN DraftSet_add(W, thing[2], value).w
    ELSE IF W.heap[thing[2]].frozen THEN Throw(W, "FrozenMutation")
    ELSE set(W, thing[2], value, value)

lengthOf(W, thing) ==
    IF isDraft(thing) THEN Len(Latest(W, thing[2]).ents) ELSE Len(W.heap[thing[2]].ents)

\* Set(O, to, Get(O, from)) if from is present, else DeleteProperty(O, to)
moveElement(W, thing, from, to) ==
    IF hasProp(W, thing, Num(from))
    THEN Let(get(W, thing, Num(from)), LAMBDA r :
             IF r.w.err # "" THEN r.w ELSE assign(r.w, thing, Num(to), r.ret))
    ELSE deleteProp(W, thing, Num(to))

RECURSIVE shiftUp(_, _, _, _), shiftDown(_, _, _, _)

\* Array.prototype.splice, insertion: k from len down to start + 1
shiftUp(W, thing, k, start) ==
    IF k <= start \/ W.err # "" THEN W
    ELSE shiftUp(moveElement(W, thing, k - 1, k), thing, k - 1, start)

\* Array.prototype.splice, removal of one element: k from start up to len - 2
shiftDown(W, thing, k, len) ==
    IF k >= len - 1 \/ W.err # "" THEN W
    ELSE shiftDown(moveElement(W, thing, k + 1, k), thing, k + 1, len)

ThenDo(W, Do(_)) == IF W.err # "" THEN W ELSE Do(W)

\* thing.splice(key, 0, value)
spliceInsert(W, thing, key, value) ==
    LET len == lengthOf(W, thing)
        start == IF key > len THEN len ELSE key
    IN  ThenDo(ThenDo(shiftUp(W, thing, len, start),
                      LAMBDA W1 : assign(W1, thing, Num(start), value)),
               LAMBDA W2 : assign(W2, thing, LENGTH, Num(len + 1)))

\* thing.splice(key, 1)
spliceRemove(W, thing, key) ==
    LET len == lengthOf(W, thing) IN
    \* the removed element is read into the array splice returns
    Let(IF key < len /\ hasProp(W, thing, Num(key)) THEN get(W, thing, Num(key)).w ELSE W,
        LAMBDA r :
          IF key >= len THEN ThenDo(r, LAMBDA W1 : assign(W1, thing, LENGTH, Num(len)))
          ELSE ThenDo(ThenDo(ThenDo(r, LAMBDA W1 : shiftDown(W1, thing, key, len)),
                             LAMBDA W1 : deleteProp(W1, thing, Num(len - 1))),
                      LAMBDA W2 : assign(W2, thing, LENGTH, Num(len - 1))))

\* thing.push(value)
push(W, thing, value) ==
    LET len == lengthOf(W, thing) IN
    ThenDo(assign(W, thing, Num(len), value),
           LAMBDA W1 : assign(W1, thing, LENGTH, Num(len + 1)))

----------------------------------------------------------------------------
(* Patch applier (plugins/patches applyPatches_, Immer.applyPatches) *)

RECURSIVE walkPath(_, _, _, _)
\* the loop over path[0 .. length-2]: [w, ret] with ret the parent of the last key
walkPath(W, base, path, i) ==
    IF i > Len(path) - 1 THEN Ret(W, base)
    ELSE IF getArchtype(W, base) \in {"Object", "Array"} /\ path[i] \in {PROTO, CONSTRUCTOR}
    THEN Ret(Throw(W, "PathUnresolved"), UNDEF)
    ELSE Let(get(W, base, path[i]), LAMBDA r :
             IF r.w.err # "" THEN r
             ELSE IF ~isDraftable(r.ret) THEN Ret(Throw(r.w, "PathUnresolved"), UNDEF)
             ELSE walkPath(r.w, r.ret, path, i + 1))

\* the start index splice makes of a key: an index, or 0 for a key that is not a number
SpliceIndex(key) == IF key[1] = "num" THEN key[2] ELSE 0

\* the switch (op) of applyPatches_ on the parent base, with the cloned value
applyOp(W, base, type, patch, key, value) ==
    CASE patch.op = "replace" ->
           (CASE type = "Map" -> mapSet(W, base, key, value)
              [] type = "Set" -> Throw(W, "UnsupportedOperation")
              [] OTHER -> assign(W, base, key, value))
      [] patch.op = "add" ->
           (CASE type = "Array" ->
                   IF key = DASH THEN push(W, base, value)
                   ELSE spliceInsert(W, base, SpliceIndex(key), value)
              [] type = "Map" -> mapSet(W, base, key, value)
              [] type = "Set" -> setAdd(W, base, value)
              [] OTHER -> assign(W, base, key, value))
      [] patch.op = "remove" ->
           (CASE type = "Array" -> spliceRemove(W, base, SpliceIndex(key))
              [] type = "Map" -> collDelete(W, base, key)
              [] type = "Set" -> collDelete(W, base, patch.value)
              [] OTHER -> deleteProp(W, base, key))
      [] OTHER -> Throw(W, "UnsupportedOperation")

applyPatch(W, draft, patch) ==
    Let(walkPath(W, draft, patch.path, 1), LAMBDA wk :
        IF wk.w.err # "" THEN wk.w
        ELSE Let(deepClonePatchValue(wk.w, IF patch.value = NOVALUE THEN UNDEF
                                           ELSE patch.value),
                 LAMBDA cl :
                   IF cl.w.err # "" THEN cl.w
                   ELSE applyOp(cl.w, wk.ret, getArchtype(wk.w, wk.ret), patch,
                                patch.path[Len(patch.path)], cl.ret)))

RECURSIVE applyPatches_(_, _, _, _)
\* patches.forEach(...), from patch i on
applyPatches_(W, draft, patches, i) ==
    IF i > Len(patches) \/ W.err # "" THEN W
    ELSE applyPatches_(applyPatch(W, draft, patches[i]), draft, patches, i + 1)

\* index of the last root replace patch, 0 if none
LastRootReplace(patches) ==
    IF \E i \in 1..Len(patches) : patches[i].path = <<>> /\ patches[i].op = "replace"
    THEN CHOOSE i \in 1..Len(patches) :
            /\ patches[i].path = <<>> /\ patches[i].op = "replace"
            /\ \A j \in (i + 1)..Len(patches) :
                  ~(patches[j].path = <<>> /\ patches[j].op = "replace")
    ELSE 0

\* the patches applied to the base itself, without a producer around them
produceApply_inPlace(W, base, patches) == Ret(applyPatches_(W, base, patches, 1), base)

\* Immer.applyPatches on a plain base: this.produce(base, draft => applyPatches_(draft, patches))
produceApply(W, base, patches) ==
    Let(createProxy(enterScope(W), base, 0), LAMBDA px :
    Let(px.w.cur, LAMBDA scope :
    Let(applyPatches_(px.w, px.ret, patches, 1), LAMBDA W2 :
        IF W2.err # "" THEN Ret(Throw(revokeScope(W2, scope), W2.err), UNDEF)
        ELSE Let(processResult(leaveScope(W2, scope), px.ret, scope), LAMBDA r :
                 Ret(r.w, r.ret)))))

\* an applyPatches that drops the patches up to the last root replace and keeps the
\* base it was given
Immer_applyPatches_keepBase(W, base0, patches0) ==
    LET i == LastRootReplace(patches0)
        patches == IF i > 0 THEN SubSeq(patches0, i + 1, Len(patches0)) ELSE patches0
    IN  IF isDraft(base0) THEN Ret(applyPatches_(W, base0, patches, 1), base0)
        ELSE IF isDraftable(base0) THEN produceApply(W, base0, patches)
        ELSE IF Len(patches) > 0 THEN Ret(Throw(W, "TypeError"), UNDEF)
        ELSE Ret(W, base0)

\* Immer.applyPatches: [w, ret]; a non-draft base goes through produce
Immer_applyPatches(W, base0, patches0) ==
    LET i == LastRootReplace(patches0)
        base == IF i > 0 THEN patches0[i].value ELSE base0
        patches == IF i > 0 THEN SubSeq(patches0, i + 1, Len(patches0)) ELSE patches0
    IN  IF isDraft(base) THEN Ret(applyPatches_(W, base, patches, 1), base)
        ELSE IF isDraftable(base) THEN produceApply(W, base, patches)
        ELSE IF Len(patches) > 0 THEN Ret(Throw(W, "TypeError"), UNDEF)
        ELSE Ret(W, base)

----------------------------------------------------------------------------
(* The bases a Run is started on.  Heap objects 1..8:                        *)
(*   1  {x: 1}                      5  Set{1, #1}                            *)
(*   2  {a: #1, n: NaN}             6  {a: #4}        record > map > record  *)
(*   3  [#1, 1]                     7  Map{a -> #5}   map > set > record     *)
(*   4  Map{a -> #1, n -> NaN}      8  [#3]           array > array > record *)

InitHeap ==
    << Obj("Object", << <<KX, Num(1)>> >>),
       Obj("Object", << <<KA, Ref(1)>>, <<Str(5), NAN>> >>),
       Obj("Array",  << <<Num(0), Ref(1)>>, <<Num(1), Num(1)>> >>),
       Obj("Map",    << <<KA, Ref(1)>>, <<Str(5), NAN>> >>),
       Obj("Set",    << <<Num(1), Num(1)>>, <<Ref(1), Ref(1)>> >>),
       Obj("Object", << <<KA, Ref(4)>> >>),
       Obj("Map",    << <<KA, Ref(5)>> >>),
       Obj("Array",  << <<Num(0), Ref(3)>> >>) >>

KN == Str(5)                       \* "n"

Roots == 2..8

NoOutcome ==
    [ret |-> UNDEF, err |-> "", called |-> FALSE, patches |-> <<>>, inverse |-> <<>>,
     applied |-> "", value |-> UNDEF, applyErr |-> "", result |-> UNDEF, live |-> {}]

NoLast == [kind |-> "", d |-> 0, k |-> UNDEF, modified |-> {}]

\* what the recipe has done so far: selfOnly / mapSelfOnly = every write was a
\* self-assignment on a record or array / on a map; touched = the <<draft, key>>
\* pairs written or deleted; last = the latest step when it was a self-assignment
\* (modified = the drafts that were modified before it)
NoHist ==
    [steps |-> 0, writes |-> 0, selfOnly |-> TRUE, mapSelfOnly |-> TRUE, touched |-> {},
     fresh |-> 0, last |-> NoLast]

NoProbe == [op |-> "", d |-> 0, err |-> "", changed |-> FALSE]

NoSnap == [d |-> 0, ret |-> UNDEF, err |-> "",
           before |-> [heap |-> <<>>, st |-> <<>>, scopes |-> <<>>, cur |-> 0]]

\* op: "create" / "finish"; v: the value passed; ret: the value returned; pc: where
\* the caller was; n: the number of createDraft / finishDraft calls so far
NoMan == [op |-> "", v |-> UNDEF, err |-> "", ret |-> UNDEF, pc |-> "", n |-> 0,
          listener |-> FALSE, called |-> FALSE, live |-> {}]

Init ==
    /\ heap = InitHeap
    /\ st = <<>>
    /\ scopes = <<>>
    /\ currentScope = 0
    /\ autoFreeze \in BOOLEAN
    /\ pc = "idle"
    /\ run = [base |-> 0, scope |-> 0, root |-> 0, listener |-> FALSE]
    /\ outcome = NoOutcome
    /\ hist = NoHist
    /\ probe = NoProbe
    /\ snap = NoSnap
    /\ man = NoMan
    /\ stack = <<>>
    /\ plugins = AllPlugins

\* the engine state after an operator ran
Commit(W) ==
    /\ heap' = W.heap
    /\ st' = W.st
    /\ scopes' = W.scopes
    /\ currentScope' = W.cur
    /\ UNCHANGED autoFreeze

----------------------------------------------------------------------------
(* What a recipe can hold and write *)

Drafts == 1..Len(st)

RECURSIVE ReachDrafts(_, _, _)
\* the drafts reachable from value v through effective values, to depth n
ReachDrafts(W, v, n) ==
    IF n = 0 \/ ~isDraftable(v) THEN {}
    ELSE LET ents == IF isDraft(v) THEN Latest(W, v[2]).ents ELSE W.heap[v[2]].ents
         IN  (IF isDraft(v) THEN {v[2]} ELSE {})
             \cup UNION {ReachDrafts(W, ents[i][2], n - 1) : i \in 1..Len(ents)}

MaxDepth == 6

\* storing v under draft d creates no cycle
NoCycle(d, v) == d \notin ReachDrafts(World, v, MaxDepth)

PrimVals == {Num(2), NAN, UNDEF}

\* values user code holds: primitives, the drafts it has read, their originals
HeldVals(d) ==
    PrimVals
    \cup {Dr(c) : c \in {c \in Drafts : c # run.root /\ NoCycle(d, Dr(c))}}
    \cup {Ref(st[c].base) : c \in Drafts \ {run.root}}

\* a plain object the recipe creates: {x: 2} or {x: <a draft it holds>}
FreshSpecs(d) ==
    IF hist.fresh >= MaxFresh THEN {}
    ELSE {<<"fresh", 0>>} \cup {<<"fresh", c>> : c \in {c \in Drafts : c # run.root /\ NoCycle(d, Dr(c))}}

WriteVals(d) == HeldVals(d) \cup FreshSpecs(d)

IsFresh(v) == v[1] = "fresh"

\* the world with the recipe's new object allocated, and the value to write
Mat(v) ==
    IF IsFresh(v)
    THEN Ret(Alloc(World, Obj("Object", << <<KX, IF v[2] = 0 THEN Num(2) ELSE Dr(v[2])>> >>)),
             Ref(Len(heap) + 1))
    ELSE Ret(World, v)

KeysOf(d) == {Latest(World, d).ents[i][1] : i \in 1..Len(Latest(World, d).ents)}

BaseKeysOf(d) == {Base(World, d).ents[i][1] : i \in 1..Len(Base(World, d).ents)}

InRecipe == pc = "recipe" /\ hist.steps < MaxSteps

Live(d) == d \in Drafts /\ ~st[d].revoked

\* x[k] = x[k]: the value written is the value a read of k returns
SelfAssign(d, k, v) ==
    /\ oHas(Latest(World, d), k)
    /\ v = oGet(Latest(World, d), k)
    /\ (v[1] # "obj" \/ st[d].finalized)

Read == [hist EXCEPT !.steps = @ + 1, !.last = NoLast]

\* kind: "rec" / "map" for a self-assignment on a record or array / on a map
Wrote(d, keys, kind, v) ==
    [hist EXCEPT !.steps = @ + 1, !.writes = @ + 1,
                 !.selfOnly = @ /\ kind = "rec",
                 !.mapSelfOnly = @ /\ kind = "map",
                 !.touched = @ \cup {<<d, k>> : k \in keys},
                 !.fresh = @ + (IF IsFresh(v) THEN 1 ELSE 0),
                 !.last = IF kind = "" THEN NoLast
                          ELSE [kind |-> kind, d |-> d,
                                k |-> CHOOSE k \in keys : keys = {k} \/ k = LENGTH,
                                modified |-> {c \in 1..Len(st) : st[c].modified}]]

Step(W, h) ==
    /\ W.err = ""
    /\ Commit(W)
    /\ hist' = h
    /\ UNCHANGED <<pc, run, outcome, probe, snap, man, stack, plugins>>

----------------------------------------------------------------------------
(* Immer.produce on a draftable base: enterScope and the root draft *)

ProduceStart(b, listener) ==
    /\ pc = "idle"
    /\ Let(createProxy(enterScope(World), Ref(b), 0), LAMBDA r :
           /\ Commit(r.w)
           /\ run' = [base |-> b, scope |-> r.w.cur, root |-> r.ret[2],
                      listener |-> listener])
    /\ pc' = "recipe"
    /\ UNCHANGED <<outcome, hist, probe, snap, man, stack, plugins>>

(* The recipe: one trap or method call per step *)

ObjGet(d, k) ==
    /\ InRecipe /\ Live(d) /\ st[d].type \in {"Object", "Array"}
    /\ Step(proxyGet(World, d, k).w, Read)

ObjSet(d, k, v) ==
    /\ InRecipe /\ Live(d) /\ st[d].type \in {"Object", "Array"}
    /\ Let(Mat(v), LAMBDA m :
           Step(assign(m.w, Dr(d), k, m.ret),
                Wrote(d, IF k = LENGTH
                         THEN {LENGTH} \cup {Num(i) : i \in v[2]..(MaxLen + 1)}
                         ELSE {k},
                      IF SelfAssign(d, k, v) THEN "rec" ELSE "", v)))

ObjDelete(d, k) ==
    /\ InRecipe /\ Live(d) /\ st[d].type \in {"Object", "Array"}
    /\ Step(deleteProp(World, Dr(d), k), Wrote(d, {k}, "", UNDEF))

MapGet(d, k) ==
    /\ InRecipe /\ Live(d) /\ st[d].type = "Map"
    /\ Step(DraftMap_get(World, d, k).w, Read)

MapSet(d, k, v) ==
    /\ InRecipe /\ Live(d) /\ st[d].type = "Map"
    /\ Let(Mat(v), LAMBDA m :
           Step(DraftMap_set(m.w, d, k, m.ret).w,
                Wrote(d, {k}, IF SelfAssign(d, k, v) THEN "map" ELSE "", v)))

MapDelete(d, k) ==
    /\ InRecipe /\ Live(d) /\ st[d].type = "Map"
    /\ Step(DraftMap_delete(World, d, k).w, Wrote(d, {k}, "", UNDEF))

MapClear(d) ==
    /\ InRecipe /\ Live(d) /\ st[d].type = "Map"
    /\ Step(DraftMap_clear(World, d).w, Wrote(d, BaseKeysOf(d) \cup KeysOf(d), "", UNDEF))

MapForEach(d) ==
    /\ InRecipe /\ Live(d) /\ st[d].type = "Map"
    /\ Step(DraftMap_forEach(World, d).w, Read)

SetAdd(d, v) ==
    /\ InRecipe /\ Live(d) /\ st[d].type = "Set"
    /\ Let(Mat(v), LAMBDA m : Step(DraftSet_add(m.w, d, m.ret).w, Wrote(d, {v}, "", v)))

SetDelete(d, v) ==
    /\ InRecipe /\ Live(d) /\ st[d].type = "Set"
    /\ Step(DraftSet_delete(World, d, v).w,
            Wrote(d, {v} \cup (IF oHas(aObj(st[d].drafts), v)
                               THEN {oGet(aObj(st[d].drafts), v)}
                               ELSE IF isDraft(v) THEN {Ref(st[v[2]].base)} ELSE {}),
                  "", UNDEF))

SetClear(d) ==
    /\ InRecipe /\ Live(d) /\ st[d].type = "Set"
    /\ Step(DraftSet_clear(World, d).w, Wrote(d, BaseKeysOf(d) \cup KeysOf(d), "", UNDEF))

SetValues(d) ==
    /\ InRecipe /\ Live(d) /\ st[d].type = "Set"
    /\ Step(DraftSet_values(World, d).w, Read)

(* The recipe ends: Immer.produce leaves the scope and processes the result *)

ReturnVals ==
    {UNDEF, NOTHING, Num(2), Dr(run.root)}
    \cup {Dr(c) : c \in Drafts \ {run.root}}
    \cup {Ref(st[c].base) : c \in Drafts \ {run.root}}

RecipeReturn(result) ==
    /\ pc = "recipe"
    /\ Let(processResult(usePatchesInScope(leaveScope(World, run.scope), run.scope,
                                           run.listener),
                         result, run.scope),
           LAMBDA r :
             /\ Commit([r.w EXCEPT !.err = ""])
             /\ pc' = IF r.w.err = "" THEN "done" ELSE "failed"
             /\ outcome' = [NoOutcome EXCEPT
                              !.ret = r.ret, !.err = r.w.err, !.result = result,
                              !.called = r.listener.called, !.live = r.listener.live,
                              !.patches = IF r.listener.called
                                          THEN r.w.scopes[run.scope].patches ELSE <<>>,
                              !.inverse = IF r.listener.called
                                          THEN r.w.scopes[run.scope].inverse ELSE <<>>])
    /\ UNCHANGED <<run, hist, probe, snap, man, stack, plugins>>

RecipeThrow ==
    /\ pc = "recipe"
    /\ Commit(produceFailed(World, run.scope))
    /\ pc' = "failed"
    /\ outcome' = [NoOutcome EXCEPT !.err = "RecipeError"]
    /\ UNCHANGED <<run, hist, probe, snap, man, stack, plugins>>

(* After the Run: the caller replays the patches it received *)

ApplyPatches(dir) ==
    /\ pc = "done" /\ outcome.called
    /\ Let(IF dir = "forward"
           THEN Immer_applyPatches(World, Ref(run.base), outcome.patches)
           ELSE Immer_applyPatches(World, outcome.ret, outcome.inverse),
           LAMBDA r :
             /\ Commit([r.w EXCEPT !.err = ""])
             /\ outcome' = [outcome EXCEPT !.applied = dir, !.value = r.ret,
                                           !.applyErr = r.w.err])
    /\ pc' = "applied"
    /\ UNCHANGED <<run, hist, probe, snap, man, stack, plugins>>

(* After the Run: user code calls a method of a map / set draft it captured *)

MapMethods == {"size", "has", "keys", "get", "set", "delete", "clear", "forEach"}

SetMethods == {"size", "has", "add", "delete", "clear", "values"}

MethodsOf(d) == IF st[d].type = "Map" THEN MapMethods ELSE SetMethods

\* the method op of map / set draft d, called with key (or element) k
callMethod(W, d, op, k) ==
    IF W.st[d].type = "Map"
    THEN CASE op = "size" -> DraftMap_size(W, d)
           [] op = "has" -> DraftMap_has(W, d, k)
           [] op = "keys" -> DraftMap_keys(W, d)
           [] op = "get" -> DraftMap_get(W, d, k)
           [] op = "set" -> DraftMap_set(W, d, k, Num(2))
           [] op = "delete" -> DraftMap_delete(W, d, k)
           [] op = "clear" -> DraftMap_clear(W, d)
           [] OTHER -> DraftMap_forEach(W, d)
    ELSE CASE op = "size" -> DraftSet_size(W, d)
           [] op = "has" -> DraftSet_has(W, d, k)
           [] op = "add" -> DraftSet_add(W, d, k)
           [] op = "delete" -> DraftSet_delete(W, d, k)
           [] op = "clear" -> DraftSet_clear(W, d)
           [] OTHER -> DraftSet_values(W, d)

ProbeKeys(d) == IF st[d].type = "Map" THEN {KA, KZ} ELSE {Num(1), Num(2)}

UseAfterRun(d, op, k) ==
    /\ pc \in {"done", "failed"}
    /\ d \in Drafts /\ st[d].type \in {"Map", "Set"}
    /\ Let(callMethod(World, d, op, k), LAMBDA r :
           /\ Commit([r.w EXCEPT !.err = ""])
           /\ probe' = [op |-> op, d |-> d, err |-> r.w.err,
                        changed |-> [r.w EXCEPT !.err = ""] # World])
    /\ pc' = "probed"
    /\ UNCHANGED <<run, outcome, hist, snap, man, stack, plugins>>

Keys(d) == BaseKeysOf(d) \cup {KZ}

Next ==
    \/ \E b \in Roots, l \in BOOLEAN : ProduceStart(b, l)
    \/ \E d \in Drafts : \E k \in KeysOf(d) \cup {KZ} : ObjGet(d, k)
    \/ \E d \in Drafts : \E k \in Keys(d) \cup (IF st[d].type = "Array" THEN {LENGTH} ELSE {}) :
          \E v \in IF k = LENGTH THEN {Num(n) : n \in 0..MaxLen} ELSE WriteVals(d) :
             ObjSet(d, k, v)
    \/ \E d \in Drafts : \E k \in Keys(d) : ObjDelete(d, k)
    \/ \E d \in Drafts : \E k \in KeysOf(d) : MapGet(d, k)
    \/ \E d \in Drafts : \E k \in Keys(d), v \in WriteVals(d) : MapSet(d, k, v)
    \/ \E d \in Drafts : \E k \in Keys(d) : MapDelete(d, k)
    \/ \E d \in Drafts : MapClear(d)
    \/ \E d \in Drafts : MapForEach(d)
    \/ \E d \in Drafts : \E v \in WriteVals(d) \ {UNDEF} : SetAdd(d, v)
    \/ \E d \in Drafts : \E v \in BaseKeysOf(d) \cup KeysOf(d) : SetDelete(d, v)
    \/ \E d \in Drafts : SetClear(d)
    \/ \E d \in Drafts : SetValues(d)
    \/ \E result \in ReturnVals : RecipeReturn(result)
    \/ RecipeThrow
    \/ \E dir \in {"forward", "inverse"} : ApplyPatches(dir)
    \/ \E d \in Drafts : \E op \in MethodsOf(d), k \in ProbeKeys(d) : UseAfterRun(d, op, k)

Spec == Init /\ [][Next]_vars

----------------------------------------------------------------------------
(* A recipe that stores an object holding itself: o = {}; o.x = o; draft[k] = o *)

\* draft[k] = v, draft.set(k, v), draft.add(v): the write of user code by draft kind
writeDraft(W, d, k, v) ==
    CASE W.st[d].type = "Map" -> DraftMap_set(W, d, k, v).w
      [] W.st[d].type = "Set" -> DraftSet_add(W, d, v).w
      [] OTHER -> assign(W, Dr(d), k, v)

\* draft[k], draft.get(k), iteration of a set draft: the read of user code by draft kind
readDraft(W, d, k) ==
    CASE W.st[d].type = "Map" -> DraftMap_get(W, d, k)
      [] W.st[d].type = "Set" -> DraftSet_values(W, d)
      [] OTHER -> proxyGet(W, d, k)

WriteCyclic(d, k) ==
    /\ InRecipe /\ Live(d)
    /\ Let(Ref(Len(heap) + 1), LAMBDA o :
           Step(writeDraft(Alloc(World, Obj("Object", << <<KX, o>> >>)), d, k, o),
                Wrote(d, {k}, "", o)))

ReadAny(d, k) ==
    /\ InRecipe /\ Live(d)
    /\ Step(readDraft(World, d, k).w, Read)

\* delete draft[k], draft.delete(k): the removal of user code by draft kind
deleteDraft(W, d, k) ==
    CASE W.st[d].type = "Map" -> DraftMap_delete(W, d, k).w
      [] W.st[d].type = "Set" -> DraftSet_delete(W, d, k).w
      [] OTHER -> deleteProp(W, Dr(d), k)

WriteAny(d, k, v) ==
    /\ InRecipe /\ Live(d)
    /\ Let(Mat(v), LAMBDA m : Step(writeDraft(m.w, d, k, m.ret), Wrote(d, {k}, "", v)))

DeleteAny(d, k) ==
    /\ InRecipe /\ Live(d)
    /\ Step(deleteDraft(World, d, k), Wrote(d, {k}, "", UNDEF))

NextCycle ==
    \/ \E b \in Roots, l \in BOOLEAN : ProduceStart(b, l)
    \/ \E d \in Drafts : \E k \in KeysOf(d) : ReadAny(d, k)
    \/ \E d \in Drafts : \E k \in Keys(d) : WriteCyclic(d, k)
    \/ \E result \in ReturnVals : RecipeReturn(result)

SpecCycle == Init /\ [][NextCycle]_vars

----------------------------------------------------------------------------
(* current(draft): a copy of the draft's present content (core/current) *)

MaxVisits == 8

\* a base tree an earlier produce call returned with auto-freeze on
FrozenHeap == [o \in 1..Len(InitHeap) |-> [InitHeap[o] EXCEPT !.frozen = TRUE]]

RECURSIVE readEntries(_, _, _, _, _)
\* the entries a copy constructor reads from a draft, one get per key
readEntries(W, d, keys, i, acc) ==
    IF i > Len(keys) \/ W.err # "" THEN [w |-> W, ret |-> acc]
    ELSE Let(proxyGet(W, d, keys[i]), LAMBDA r :
             readEntries(r.w, d, keys, i + 1, Append(acc, <<keys[i], r.ret>>)))

\* the holes of src put back between the entries read
withHoles(src, read) ==
    [i \in 1..Len(src) |->
        IF src[i][2] = HOLE THEN src[i]
        ELSE read[Cardinality({j \in 1..i : src[j][2] # HOLE})]]

\* shallowCopy(draft): new Map(draft), new Set(draft), slice or a property copy, all
\* of which read the draft through its traps and methods
shallowCopyDraft(W, d) ==
    IF W.st[d].type = "Set"
    THEN Let(DraftSet_values(W, d).w, LAMBDA W1 :
             Ret(W1, IF W1.err # "" THEN <<>> ELSE Latest(W1, d).ents))
    ELSE Let(readEntries(W, d, IterKeys(W, Dr(d)), 1, <<>>), LAMBDA r :
             Ret(r.w, IF r.w.err # "" THEN <<>>
                      ELSE IF W.st[d].type = "Array"
                           THEN withHoles(Latest(W, d).ents, r.ret)
                           ELSE r.ret))

\* state.finalized_ = true, so that the reads of the copy create no child draft
beginCurrent_open(W, d) == W
beginCurrent(W, d) == [W EXCEPT !.st[d].finalized = TRUE]

RECURSIVE currentImpl(_, _), currentEach(_, _, _)

\* each(copy, (key, childValue) => set(copy, key, currentImpl(childValue))): the
\* iteration is live, so what set() appends to a Set is visited too; a traversal
\* that is still running after MaxVisits entries is one that does not return
currentEach(W, o, i) ==
    IF W.err # "" \/ i > Len(W.heap[o].ents) THEN W
    ELSE IF i > MaxVisits THEN Throw(W, "NoReturn")
    ELSE IF W.heap[o].ents[i][2] = HOLE THEN currentEach(W, o, i + 1)
    ELSE Let(W.heap[o].ents[i][1], LAMBDA key :
         Let(currentImpl(W, W.heap[o].ents[i][2]), LAMBDA r :
             currentEach(IF r.w.err # "" THEN r.w ELSE set(r.w, o, key, r.ret),
                         o, i + 1)))

\* the copy is allocated, its children are replaced, and the draft is reopened
currentCopy(W, type, ents, d) ==
    Let(Len(W.heap) + 1, LAMBDA o :
    Let(currentEach(Alloc(W, Obj(type, ents)), o, 1), LAMBDA W1 :
        IF W1.err # "" THEN Ret(W1, UNDEF)
        ELSE Ret(IF d = 0 THEN W1 ELSE [W1 EXCEPT !.st[d].finalized = FALSE], Ref(o))))

currentImpl(W, value) ==
    IF ~isDraftable(value) \/ isFrozen(W, value) THEN Ret(W, value)
    ELSE IF ~isDraft(value)
    THEN currentCopy(W, W.heap[value[2]].type, W.heap[value[2]].ents, 0)
    ELSE IF ~W.st[value[2]].modified THEN Ret(W, Ref(W.st[value[2]].base))
    ELSE Let(shallowCopyDraft(beginCurrent(W, value[2]), value[2]), LAMBDA c :
             IF c.w.err # "" THEN Ret(c.w, UNDEF)
             ELSE currentCopy(c.w, W.st[value[2]].type, c.ret, value[2]))

current(W, value) ==
    IF ~isDraft(value) THEN Ret(Throw(W, "NotADraft"), UNDEF)
    ELSE currentImpl(W, value)

\* current(d) called by the recipe: snap keeps the call's result and the engine
\* state it started from
Snapshot(d) ==
    /\ pc = "recipe" /\ Live(d)
    /\ Let(current(World, Dr(d)), LAMBDA r :
           /\ Commit(r.w)
           /\ snap' = [d |-> d, ret |-> r.ret, err |-> r.w.err,
                       before |-> [heap |-> heap, st |-> st, scopes |-> scopes,
                                   cur |-> currentScope]])
    /\ pc' = "snapped"
    /\ UNCHANGED <<run, outcome, hist, probe, man, stack, plugins>>

InitSnap ==
    /\ heap \in {InitHeap, FrozenHeap}
    /\ st = <<>>
    /\ scopes = <<>>
    /\ currentScope = 0
    /\ autoFreeze \in BOOLEAN
    /\ pc = "idle"
    /\ run = [base |-> 0, scope |-> 0, root |-> 0, listener |-> FALSE]
    /\ outcome = NoOutcome
    /\ hist = NoHist
    /\ probe = NoProbe
    /\ snap = NoSnap
    /\ man = NoMan
    /\ stack = <<>>
    /\ plugins = AllPlugins

NextSnap ==
    \/ \E b \in Roots : ProduceStart(b, FALSE)
    \/ \E d \in Drafts : \E k \in KeysOf(d) : ReadAny(d, k)
    \/ \E d \in Drafts : \E k \in Keys(d) : \E v \in WriteVals(d) \ {UNDEF} :
          WriteAny(d, k, v)
    \/ \E d \in Drafts : \E k \in KeysOf(d) : DeleteAny(d, k)
    \/ \E d \in Drafts : Snapshot(d)

SpecSnap == InitSnap /\ [][NextSnap]_vars

----------------------------------------------------------------------------
(* A producer on the set Set{1, 2, 3} whose recipe adds and deletes numbers *)

SetHeap == << Obj("Set", << <<Num(1), Num(1)>>, <<Num(2), Num(2)>>, <<Num(3), Num(3)>> >>) >>

SetElems == {Num(1), Num(2), Num(3), Num(4)}

InitSet ==
    /\ heap = SetHeap
    /\ st = <<>>
    /\ scopes = <<>>
    /\ currentScope = 0
    /\ autoFreeze \in BOOLEAN
    /\ pc = "idle"
    /\ run = [base |-> 0, scope |-> 0, root |-> 0, listener |-> FALSE]
    /\ outcome = NoOutcome
    /\ hist = NoHist
    /\ probe = NoProbe
    /\ snap = NoSnap
    /\ man = NoMan
    /\ stack = <<>>
    /\ plugins = AllPlugins

NextSet ==
    \/ \E l \in BOOLEAN : ProduceStart(1, l)
    \/ \E d \in Drafts : \E v \in SetElems : SetAdd(d, v)
    \/ \E d \in Drafts : \E v \in SetElems : SetDelete(d, v)
    \/ \E d \in Drafts : SetClear(d)
    \/ \E d \in Drafts : SetValues(d)
    \/ \E result \in ReturnVals : RecipeReturn(result)
    \/ ApplyPatches("inverse")

SpecSet == InitSet /\ [][NextSet]_vars

----------------------------------------------------------------------------
(* Manual drafts: Immer.createDraft and Immer.finishDraft, between and inside *)
(* produce calls                                                             *)

MaxManual == 3
MaxScopes == 3

\* createDraft without the leaveScope that pops the new scope
createDraft_stay(W, base) ==
    IF ~isDraftable(base) THEN Ret(Throw(W, "NotDraftable"), UNDEF)
    ELSE Let(IF isDraft(base) THEN current(W, base) ELSE Ret(W, base), LAMBDA b :
             IF b.w.err # "" THEN Ret(b.w, UNDEF)
             ELSE Let(createProxy(enterScope(b.w), b.ret, 0), LAMBDA p :
                      Ret([p.w EXCEPT !.st[p.ret[2]].isManual = TRUE], p.ret)))

createDraft(W, base) ==
    IF ~isDraftable(base) THEN Ret(Throw(W, "NotDraftable"), UNDEF)          \* die(8)
    ELSE Let(IF isDraft(base) THEN current(W, base) ELSE Ret(W, base), LAMBDA b :
             IF b.w.err # "" THEN Ret(b.w, UNDEF)
             ELSE Let(createProxy(enterScope(b.w), b.ret, 0), LAMBDA p :
                      Ret(leaveScope([p.w EXCEPT !.st[p.ret[2]].isManual = TRUE],
                                     p.w.st[p.ret[2]].scope),
                          p.ret)))

finishDraft(W, draft, listener) ==
    IF ~isDraft(draft) THEN Ret(Throw(W, "NotManual"), UNDEF)                \* die(9)
    ELSE IF W.st[draft[2]].type \in {"Object", "Array"} /\ Revoked(W, draft[2])
    THEN Ret(Throw(W, "ProxyRevoked"), UNDEF)          \* draft[DRAFT_STATE] on a revoked proxy
    ELSE IF ~W.st[draft[2]].isManual THEN Ret(Throw(W, "NotManual"), UNDEF)  \* die(9)
    ELSE processResult(usePatchesInScope(W, W.st[draft[2]].scope, listener),
                       UNDEF, W.st[draft[2]].scope)

\* the values user code passes to createDraft besides the drafts it holds
ManualBases == {Ref(2), Num(2)}

\* draft d belongs to the scope of a manual draft
InManual(d) == st[scopes[st[d].scope].drafts[1]].isManual

CreateDraft(base) ==
    /\ man.n < MaxManual
    /\ isDraft(base) => Live(base[2])
    /\ Let(createDraft(World, base), LAMBDA r :
           /\ Commit([r.w EXCEPT !.err = ""])
           /\ man' = [op |-> "create", v |-> base, err |-> r.w.err, ret |-> r.ret,
                      pc |-> pc, n |-> man.n + 1,
                      listener |-> FALSE, called |-> FALSE, live |-> {}])
    /\ UNCHANGED <<pc, run, outcome, hist, probe, snap, stack, plugins>>

FinishDraft(v, listener) ==
    /\ man.n < MaxManual
    /\ Let(finishDraft(World, v, listener), LAMBDA r :
           /\ Commit([r.w EXCEPT !.err = ""])
           /\ man' = [op |-> "finish", v |-> v, err |-> r.w.err, ret |-> r.ret,
                      pc |-> pc, n |-> man.n + 1, listener |-> listener,
                      called |-> IF r.w.err = "" THEN r.listener.called ELSE FALSE,
                      live |-> IF r.w.err = "" THEN r.listener.live ELSE {}])
    /\ UNCHANGED <<pc, run, outcome, hist, probe, snap, stack, plugins>>

\* user code reads or writes a manual draft, inside or outside a recipe
ManualRead(d, k) ==
    /\ hist.steps < MaxSteps /\ Live(d) /\ InManual(d)
    /\ Step(readDraft(World, d, k).w, Read)

ManualWrite(d, k, v) ==
    /\ hist.steps < MaxSteps /\ Live(d) /\ InManual(d)
    /\ Let(Mat(v), LAMBDA m : Step(writeDraft(m.w, d, k, m.ret), Wrote(d, {k}, "", v)))

\* produce has returned or thrown; the caller goes on to its next call
ProduceAgain ==
    /\ pc \in {"done", "failed"} /\ Len(scopes) < MaxScopes
    /\ pc' = "idle"
    /\ run' = [base |-> 0, scope |-> 0, root |-> 0, listener |-> FALSE]
    /\ outcome' = NoOutcome
    /\ UNCHANGED <<heap, st, scopes, currentScope, autoFreeze, hist, probe, snap, man, stack, plugins>>

NextManual ==
    \/ ProduceStart(2, FALSE)
    \/ RecipeReturn(UNDEF)
    \/ ProduceAgain
    \/ \E base \in ManualBases \cup {Dr(d) : d \in Drafts} : CreateDraft(base)
    \/ \E v \in {Dr(d) : d \in Drafts} \cup {Ref(2)} : FinishDraft(v, FALSE)
    \/ \E d \in Drafts : \E k \in KeysOf(d) : ManualRead(d, k)
    \/ \E d \in Drafts : \E k \in KeysOf(d) : ManualWrite(d, k, Num(2))

SpecManual == Init /\ [][NextManual]_vars

----------------------------------------------------------------------------
(* Immer.produce called inside a recipe: the produce calls in progress form a  *)
(* stack, and a plugin may not have been loaded when produce needs it          *)

MaxNest == 2

\* enterScope and createProxy(base, undefined) of produce; createProxy asks
\* getPlugin("MapSet") for the proxy of a Map or Set, which dies when the plugin
\* was not loaded: nothing catches this, the scope entered stays current
produceEnter(W, base, loaded) ==
    Let(enterScope(W), LAMBDA W1 :
        IF W.heap[base[2]].type \in {"Map", "Set"} /\ "MapSet" \notin loaded
        THEN Ret(Throw(W1, "PluginMissing"), UNDEF)
        ELSE createProxy(W1, base, 0))

\* the recipe has returned: leaveScope, usePatchesInScope (which asks
\* getPlugin("Patches") when a listener was passed), processResult
produceLeave(W, sc, listener, result, loaded) ==
    Let(leaveScope(W, sc), LAMBDA W1 :
        IF listener /\ "Patches" \notin loaded
        THEN [w |-> Throw(W1, "PluginMissing"), ret |-> UNDEF,
              listener |-> [called |-> FALSE, live |-> {}]]
        ELSE processResult(usePatchesInScope(W1, sc, listener), result, sc))

\* produce on a base that is not an object: the recipe runs on the base itself and
\* its result is frozen deeply whenever the engine freezes at all
producePrimitive(W, base, result) ==
    Let(IF result = UNDEF THEN base ELSE IF result = NOTHING THEN UNDEF ELSE result,
        LAMBDA r : Ret(IF W.autoFreeze THEN freeze(W, r, TRUE) ELSE W, r))

Top == stack[Len(stack)]

NestStart(b, listener) ==
    /\ Len(stack) < MaxNest /\ Len(scopes) < MaxScopes
    /\ pc \in {"idle", "recipe"}
    /\ Let(produceEnter(World, Ref(b), plugins), LAMBDA r :
           /\ Commit([r.w EXCEPT !.err = ""])
           /\ IF r.w.err = ""
              THEN /\ stack' = Append(stack, [scope |-> r.w.cur, root |-> r.ret[2],
                                              listener |-> listener,
                                              before |-> currentScope])
                   /\ pc' = "recipe"
                   /\ outcome' = NoOutcome
              ELSE /\ UNCHANGED <<stack, pc>>
                   /\ outcome' = [NoOutcome EXCEPT !.err = r.w.err])
    /\ UNCHANGED <<run, hist, probe, snap, man, plugins>>

NestReturn(result) ==
    /\ stack # <<>>
    /\ Let(produceLeave(World, Top.scope, Top.listener, result, plugins), LAMBDA r :
           /\ Commit([r.w EXCEPT !.err = ""])
           /\ outcome' = [NoOutcome EXCEPT
                            !.ret = r.ret, !.err = r.w.err, !.result = result,
                            !.called = r.listener.called, !.live = r.listener.live,
                            !.patches = IF r.listener.called
                                        THEN r.w.scopes[Top.scope].patches ELSE <<>>,
                            !.inverse = IF r.listener.called
                                        THEN r.w.scopes[Top.scope].inverse ELSE <<>>])
    /\ stack' = SubSeq(stack, 1, Len(stack) - 1)
    /\ pc' = IF Len(stack) = 1 THEN "idle" ELSE "recipe"
    /\ UNCHANGED <<run, hist, probe, snap, man, plugins>>

NestThrow ==
    /\ stack # <<>>
    /\ Commit(produceFailed(World, Top.scope))
    /\ outcome' = [NoOutcome EXCEPT !.err = "RecipeError"]
    /\ stack' = SubSeq(stack, 1, Len(stack) - 1)
    /\ pc' = IF Len(stack) = 1 THEN "idle" ELSE "recipe"
    /\ UNCHANGED <<run, hist, probe, snap, man, plugins>>

\* produce(2, () => result), at the top level or inside a recipe
NestPrimitive(result) ==
    /\ pc \in {"idle", "recipe"}
    /\ Let(producePrimitive(World, Num(2), result), LAMBDA r :
           /\ Commit(r.w)
           /\ outcome' = [NoOutcome EXCEPT !.ret = r.ret, !.result = result])
    /\ UNCHANGED <<pc, run, hist, probe, snap, man, stack, plugins>>

InitNest ==
    /\ heap = InitHeap
    /\ st = <<>>
    /\ scopes = <<>>
    /\ currentScope = 0
    /\ autoFreeze \in BOOLEAN
    /\ pc = "idle"
    /\ run = [base |-> 0, scope |-> 0, root |-> 0, listener |-> FALSE]
    /\ outcome = NoOutcome
    /\ hist = NoHist
    /\ probe = NoProbe
    /\ snap = NoSnap
    /\ man = NoMan
    /\ stack = <<>>
    /\ plugins \in SUBSET AllPlugins

NextNest ==
    \/ \E b \in {2, 4}, l \in BOOLEAN : NestStart(b, l)
    \/ \E result \in {UNDEF} \cup {Dr(Top.root) : i \in 1..Len(stack)}
                          \cup {Dr(stack[i].root) : i \in 1..Len(stack) - 1} :
          NestReturn(result)
    \/ NestThrow
    \/ NestPrimitive(Ref(1))
    \/ Len(scopes) < MaxScopes /\ CreateDraft(Ref(2))
    \/ \E d \in Drafts : st[d].isManual /\ Live(d) /\ FinishDraft(Dr(d), FALSE)
    \/ \E d \in {Top.root : i \in 1..Len(stack)} :
          \E v \in {Num(2)} \cup {Dr(stack[i].root) : i \in 1..Len(stack) - 1} :
             WriteAny(d, KA, v)

SpecNest == InitNest /\ [][NextNest]_vars

----------------------------------------------------------------------------
(* A recipe of up to MaxOps steps on a record or a keyed map: it reads a child, *)
(* writes the child's own base value back and goes on to write other keys       *)

MaxOps == 3

InOps == pc = "recipe" /\ hist.steps < MaxOps

OpRead(d, k) ==
    /\ InOps /\ Live(d)
    /\ Step(readDraft(World, d, k).w, Read)

OpWrite(d, k, v) ==
    /\ InOps /\ Live(d)
    /\ Let(Mat(v), LAMBDA m : Step(writeDraft(m.w, d, k, m.ret), Wrote(d, {k}, "", v)))

OpDelete(d, k) ==
    /\ InOps /\ Live(d)
    /\ Step(deleteDraft(World, d, k), Wrote(d, {k}, "", UNDEF))

NextOps ==
    \/ \E b \in {2, 4, 5} : ProduceStart(b, TRUE)
    \/ \E k \in {KA, KN} : OpRead(run.root, k)
    \/ \E d \in Drafts : \E k \in KeysOf(d) \cup {KA, KZ} :
          \E v \in {Num(2)} \cup {Ref(st[c].base) : c \in Drafts \ {run.root}}
                         \cup {<<"fresh", c>> : c \in Drafts \ {run.root, d}}
                         \cup {Dr(c) : c \in Drafts \ {run.root, d}} :
             OpWrite(d, k, v)
    \/ \E d \in Drafts : \E k \in KeysOf(d) : OpDelete(d, k)
    \/ RecipeReturn(UNDEF)

SpecOps == Init /\ [][NextOps]_vars

----------------------------------------------------------------------------
(* Patch listeners: one produce call and manual drafts, finished with and without *)
(* a listener, after writes, after a throwing recipe and after a replaced result   *)

NextSink ==
    \/ \E l \in BOOLEAN : ProduceStart(2, l)
    \/ \E d \in Drafts : \E k \in KeysOf(d) : WriteAny(d, k, Num(2))
    \/ \E result \in {UNDEF, Num(2)} : RecipeReturn(result)
    \/ RecipeThrow
    \/ CreateDraft(Ref(2))
    \/ \E d \in Drafts : \E k \in KeysOf(d) : ManualWrite(d, k, Num(2))
    \/ \E d \in Drafts : \E l \in BOOLEAN : FinishDraft(Dr(d), l)

SpecSink == Init /\ [][NextSink]_vars

----------------------------------------------------------------------------
(* Immer.applyPatches called by user code with a patch list of its own *)

MaxPatches == 2

PatchPaths ==
    {<<KA>>, <<KA, KX>>, <<KN, KX>>, <<Num(0)>>,
     <<CONSTRUCTOR>>, <<PROTO>>, <<KA, CONSTRUCTOR>>, <<PROTO, KX>>}

PatchPool ==
    {Patch("replace", p, v) : p \in PatchPaths, v \in {Num(2), Ref(1)}}
    \cup {Patch("add", p, Num(2)) : p \in PatchPaths}
    \cup {Patch("remove", p, NOVALUE) : p \in PatchPaths}
    \cup {Patch("move", <<KA>>, Num(2))}
    \cup {Patch("replace", p, Ref(8)) : p \in {<<>>, <<KA>>}}

PatchLists == UNION {[1..n -> PatchPool] : n \in 1..MaxPatches}

\* the record {a: #1, n: NaN}, the array [#1, 1] and the set Set{1, #1}
ApplyTargets == {2, 3, 5}

Apply(target, patches) ==
    /\ pc = "idle"
    /\ Let(Immer_applyPatches(World, Ref(target), patches), LAMBDA r :
           /\ Commit([r.w EXCEPT !.err = ""])
           /\ outcome' = [NoOutcome EXCEPT !.applied = "forward", !.patches = patches,
                                           !.value = IF r.w.err = "" THEN r.ret ELSE UNDEF,
                                           !.applyErr = r.w.err])
    /\ run' = [run EXCEPT !.base = target]
    /\ pc' = "applied"
    /\ UNCHANGED <<hist, probe, snap, man, stack, plugins>>

NextApply == \E target \in ApplyTargets : \E patches \in PatchLists : Apply(target, patches)

SpecApply == Init /\ [][NextApply]_vars

----------------------------------------------------------------------------
(* A producer on a record and an array that hold +0, -0 and NaN *)

ZeroHeap ==
    << Obj("Object", << <<KX, Num(0)>>, <<KA, NEGZERO>>, <<KN, NAN>> >>),
       Obj("Array",  << <<Num(0), Num(0)>>, <<Num(1), NEGZERO>> >>) >>

ZeroVals == {Num(0), NEGZERO, NAN, Num(2), UNDEF}

InitZero ==
    /\ heap = ZeroHeap
    /\ st = <<>>
    /\ scopes = <<>>
    /\ currentScope = 0
    /\ autoFreeze \in BOOLEAN
    /\ pc = "idle"
    /\ run = [base |-> 0, scope |-> 0, root |-> 0, listener |-> FALSE]
    /\ outcome = NoOutcome
    /\ hist = NoHist
    /\ probe = NoProbe
    /\ snap = NoSnap
    /\ man = NoMan
    /\ stack = <<>>
    /\ plugins = AllPlugins

NextZero ==
    \/ \E b \in 1..Len(ZeroHeap), l \in BOOLEAN : ProduceStart(b, l)
    \/ \E d \in Drafts : \E k \in Keys(d), v \in ZeroVals : ObjSet(d, k, v)
    \/ \E d \in Drafts : \E k \in Keys(d) : ObjDelete(d, k)
    \/ RecipeReturn(UNDEF)

SpecZero == InitZero /\ [][NextZero]_vars

----------------------------------------------------------------------------
(* Structural equality of two values: arrays by index (a hole reads as       *)
(* undefined), records and maps by key, sets by membership                   *)

RECURSIVE DeepEq(_, _, _, _)
DeepEq(W, a, b, n) ==
    IF a[1] # "obj" \/ b[1] # "obj" \/ n = 0 THEN a = b
    ELSE LET oa == W.heap[a[2]]
             ob == W.heap[b[2]]
             ka == {oa.ents[i][1] : i \in {i \in 1..Len(oa.ents) : oa.ents[i][2] # HOLE}}
             kb == {ob.ents[i][1] : i \in {i \in 1..Len(ob.ents) : ob.ents[i][2] # HOLE}}
         IN  /\ oa.type = ob.type
             /\ Len(oa.ents) = Len(ob.ents)
             /\ CASE oa.type = "Array" ->
                       \A i \in 0..(Len(oa.ents) - 1) :
                          DeepEq(W, oGet(oa, Num(i)), oGet(ob, Num(i)), n - 1)
                  [] oa.type = "Set" ->
                       /\ \A x \in ka : \E y \in kb : DeepEq(W, x, y, n - 1)
                       /\ \A y \in kb : \E x \in ka : DeepEq(W, x, y, n - 1)
                  [] OTHER ->
                       /\ ka = kb
                       /\ \A k \in ka : DeepEq(W, oGet(oa, k), oGet(ob, k), n - 1)

----------------------------------------------------------------------------
(* Properties *)

BaseUnchanged == \A o \in 1..Len(InitHeap) : heap[o].ents = InitHeap[o].ents

RunDrafts == {d \in Drafts : st[d].scope = run.scope}

Modified == {d \in Drafts : st[d].modified}

\* the recipe returned nothing or the root draft: the result is the finalized root
NotReplaced == outcome.result \in {UNDEF, Dr(run.root)}

RECURSIVE AtOrBelow(_, _, _)
\* draft c is draft d or a descendant of it
AtOrBelow(c, d, n) == c = d \/ (n > 0 /\ st[c].parent # 0 /\ AtOrBelow(st[c].parent, d, n - 1))

NoModifiedAtOrBelow(d) ==
    d = 0 \/ \A c \in Drafts : AtOrBelow(c, d, MaxDepth) => ~st[c].modified

\* the draft created under parent draft d for base value b, 0 if there is none
ChildDraft(d, b) ==
    IF d # 0 /\ \E c \in Drafts : st[c].parent = d /\ Ref(st[c].base) = b
    THEN CHOOSE c \in Drafts : st[c].parent = d /\ Ref(st[c].base) = b
    ELSE 0

\* the value the result r holds where base object b holds bv under key k
ResultAt(b, r, k, bv, c) ==
    IF r[1] # "obj" THEN NOVALUE
    ELSE IF InitHeap[b[2]].type # "Set"
    THEN IF oHas(heap[r[2]], k) THEN oGet(heap[r[2]], k) ELSE NOVALUE
    ELSE IF oHas(heap[r[2]], bv) THEN bv
    ELSE IF c # 0 /\ oHas(heap[r[2]], Ref(latest(st[c]))) THEN Ref(latest(st[c]))
    ELSE NOVALUE

RECURSIVE SharedAt(_, _, _, _)
\* b, r: the values at a path p of the base and of the result; d: the draft made for
\* p (0 if none).  Holds if p and every untouched path below p are shared.
SharedAt(b, r, d, n) ==
    /\ NoModifiedAtOrBelow(d) => r = b
    /\ (n > 0 /\ b[1] = "obj") =>
          \A i \in 1..Len(InitHeap[b[2]].ents) :
             LET k == InitHeap[b[2]].ents[i][1]
                 bv == InitHeap[b[2]].ents[i][2]
                 c == ChildDraft(d, bv)
             IN  (d = 0 \/ <<d, k>> \notin hist.touched) =>
                    SharedAt(bv, ResultAt(b, r, k, bv, c), c, n - 1)

\* C1: the base and every value reachable from it hold the same entries in every
\* state of a Run and after it returned or threw as before the call
C1_BaseNeverMutated == BaseUnchanged

\* a Run that returned after a child draft of a map was modified
C1_Witness ==
    pc = "done" /\ \E d \in Drafts : st[d].parent # 0 /\ st[d].modified
                                      /\ st[st[d].parent].type = "Map"

\* C2: a recipe that writes nothing and returns nothing makes Run return the base
\* itself, and with a patch listener both patch lists are empty
C2_NoWriteReturnsBase ==
    (pc = "done" /\ hist.writes = 0 /\ outcome.result = UNDEF) =>
        /\ outcome.ret = Ref(run.base)
        /\ run.listener =>
              outcome.called /\ outcome.patches = <<>> /\ outcome.inverse = <<>>

\* a read-only Run with a listener whose reads drafted a child and allocated a copy
C2_Witness ==
    /\ pc = "done" /\ hist.writes = 0 /\ hist.steps > 0 /\ outcome.result = UNDEF
    /\ run.listener
    /\ \E d \in Drafts : st[d].parent = run.root /\ st[run.root].copy # 0

\* C3: every path of the base along which no key was written or deleted and at or
\* below which no draft was modified holds, in the result, the same reference as in
\* the base
C3_StructuralSharing ==
    (pc = "done" /\ NotReplaced) =>
        SharedAt(Ref(run.base), outcome.ret, run.root, MaxDepth)

\* the root changed while a subtree that was read (drafted) stayed untouched
C3_Witness ==
    /\ pc = "done" /\ NotReplaced /\ st[run.root].modified
    /\ outcome.ret # Ref(run.base)
    /\ \E c \in Drafts : st[c].parent = run.root /\ ~st[c].modified
                          /\ <<run.root, KA>> \notin hist.touched

\* C4: applying the forward patches of a Run to its base yields a value structurally
\* equal to the value the Run returned
C4_ForwardRoundTrip ==
    (pc = "applied" /\ outcome.applied = "forward") =>
        outcome.applyErr = "" /\ DeepEq(World, outcome.value, outcome.ret, MaxDepth)

\* C5: applying the inverse patches of a Run to the value it returned yields a value
\* structurally equal to the base
C5_InverseRoundTrip ==
    (pc = "applied" /\ outcome.applied = "inverse") =>
        outcome.applyErr = "" /\ DeepEq(World, outcome.value, Ref(run.base), MaxDepth)

\* C6: a self-assignment x[k] = x[k] on an unmodified record or array draft modifies
\* no draft and records no assignment for k; a Run whose writes are all such
\* self-assignments returns the base itself and emits no patch
C6_SelfAssignRecord ==
    /\ (pc = "recipe" /\ hist.last.kind = "rec" /\ hist.last.d \notin hist.last.modified) =>
          /\ Modified = hist.last.modified
          /\ ~oHas(aObj(st[hist.last.d].assigned), hist.last.k)
    /\ (pc = "done" /\ hist.writes > 0 /\ hist.selfOnly /\ outcome.result = UNDEF) =>
          /\ outcome.ret = Ref(run.base)
          /\ outcome.patches = <<>> /\ outcome.inverse = <<>>

\* a Run with a listener that wrote NaN back over NaN and nothing else
C6_Witness ==
    /\ pc = "done" /\ hist.selfOnly /\ hist.writes > 0 /\ outcome.result = UNDEF
    /\ run.listener /\ outcome.called
    /\ <<run.root, KN>> \in hist.touched

\* C7: a self-assignment m.set(k, m.get(k)) on an unmodified map draft modifies no
\* draft and records no assignment; a Run whose writes are all such
\* self-assignments returns the base itself and emits no patch
C7_SelfAssignMap ==
    /\ (pc = "recipe" /\ hist.last.kind = "map" /\ hist.last.d \notin hist.last.modified) =>
          /\ Modified = hist.last.modified
          /\ ~oHas(aObj(st[hist.last.d].assigned), hist.last.k)
    /\ (pc = "done" /\ hist.writes > 0 /\ hist.mapSelfOnly /\ outcome.result = UNDEF) =>
          /\ outcome.ret = Ref(run.base)
          /\ outcome.patches = <<>> /\ outcome.inverse = <<>>

\* C8: a recipe that returns a defined value other than the root draft while the
\* root draft is modified makes Run fail with ModifiedAndReturned, with every draft
\* of the scope revoked, the base unchanged and the patch listener not invoked
C8_ModifiedAndReturned ==
    (pc \in {"done", "failed"} /\ ~NotReplaced /\ st[run.root].modified) =>
        /\ pc = "failed" /\ outcome.err = "ModifiedAndReturned"
        /\ \A d \in RunDrafts : st[d].revoked
        /\ BaseUnchanged
        /\ ~outcome.called

\* a replacement returned, with a listener, after the root was modified only
\* through a child draft
C8_Witness ==
    /\ pc = "failed" /\ outcome.err = "ModifiedAndReturned" /\ run.listener
    /\ st[run.root].assigned = <<>>
    /\ \E c \in Drafts : st[c].parent = run.root /\ st[c].modified

\* C9: after Run returned normally or its recipe threw, every draft created in the
\* run's scope, of every kind, is revoked
C9_DraftsRevoked ==
    (pc = "done" \/ (pc = "failed" /\ outcome.err = "RecipeError")) =>
        \A d \in RunDrafts : st[d].revoked

\* a Run that ended with a set draft and a child draft of that set
C9_Witness ==
    /\ pc \in {"done", "failed"}
    /\ \E d, e \in RunDrafts : st[d].type = "Set" /\ st[e].parent = d /\ st[e].revoked

\* C10: every method of a revoked map or set draft raises ProxyRevoked and changes
\* nothing
C10_RevokedMapSetFails ==
    (pc = "probed" /\ st[probe.d].revoked) =>
        probe.err = "ProxyRevoked" /\ ~probe.changed

\* C11: when the recipe throws, Run pops the run's scope, revokes every draft of it,
\* raises the recipe's error, never runs finalization (no draft is finalized, nothing
\* is frozen, no patch is generated) and never calls the listener; the base is unchanged
C11_RecipeThrows ==
    (pc = "failed" /\ outcome.err = "RecipeError") =>
        /\ currentScope = scopes[run.scope].parent
        /\ \A d \in RunDrafts : st[d].revoked /\ ~st[d].finalized
        /\ scopes[run.scope].unfinalized = 0
        /\ ~scopes[run.scope].listening
        /\ scopes[run.scope].patches = <<>> /\ scopes[run.scope].inverse = <<>>
        /\ ~outcome.called
        /\ \A o \in 1..Len(heap) : ~heap[o].frozen
        /\ BaseUnchanged

\* a recipe that threw after it had modified a child draft, with auto-freeze on and
\* a patch listener
C11_Witness ==
    /\ pc = "failed" /\ outcome.err = "RecipeError" /\ run.listener /\ autoFreeze
    /\ \E c \in RunDrafts : st[c].parent = run.root /\ st[c].modified

Up(a, b) == [i \in 1..(b - a + 1) |-> a + i - 1]

Down(b, a) == [i \in 1..(b - a + 1) |-> b - i + 1]

Min(a, b) == IF a < b THEN a ELSE b

\* the <<op, key>> of the patches of a list that address the root's own keys
RootOps(list) ==
    LET own == SelectSeq(list, LAMBDA p : Len(p.path) = 1)
    IN  [i \in 1..Len(own) |-> <<own[i].op, own[i].path[1]>>]

Tagged(op, idx) == [i \in 1..Len(idx) |-> <<op, Num(idx[i])>>]

\* the indices below min(m, n) that were assigned and whose elements differ
Replaced(b, c, assigned) ==
    SelectSeq(Up(0, Min(Len(b.ents), Len(c.ents)) - 1),
              LAMBDA i : /\ oGet(aObj(assigned), Num(i)) = TRUEV
                         /\ ~StrictEq(oGet(b, Num(i)), oGet(c, Num(i))))

\* C16: a modified array draft with base length m and copy length n emits a replace
\* pair exactly for each assigned index below min(m, n) whose elements differ; for
\* n > m the forward list adds m..n-1 upwards and the inverse list removes n-1..m
\* downwards; for n < m the forward list removes m-1..n downwards and the inverse
\* list adds n..m-1 upwards: every add appends and every remove drops the last element
C16_ArrayPatches ==
    (pc = "done" /\ NotReplaced /\ outcome.called /\ st[run.root].type = "Array"
     /\ st[run.root].modified) =>
        LET b == InitHeap[run.base]
            c == heap[st[run.root].copy]
            m == Len(b.ents)
            n == Len(c.ents)
            repl == Tagged("replace", Replaced(b, c, st[run.root].assigned))
        IN  /\ RootOps(outcome.patches) =
                  repl \o (IF n > m THEN Tagged("add", Up(m, n - 1))
                           ELSE Tagged("remove", Down(m - 1, n)))
            /\ RootOps(outcome.inverse) =
                  repl \o (IF n > m THEN Tagged("remove", Down(n - 1, m))
                           ELSE Tagged("add", Up(n, m - 1)))

\* an array of two elements that two writes left empty: two removals, two adds back
C16_Witness ==
    /\ pc = "done" /\ NotReplaced /\ outcome.called /\ st[run.root].type = "Array"
    /\ st[run.root].modified
    /\ Len(heap[st[run.root].copy].ents) = 0
    /\ Len(InitHeap[run.base].ents) = 2
    /\ hist.steps = 2 /\ hist.writes = 2

\* C17: a recipe that returns the nothing sentinel without having modified the root
\* draft makes Run return undefined; with a patch listener the lists are exactly one
\* forward patch replace [] undefined and one inverse patch replace [] base, and
\* the listener is called when every draft of the scope is revoked
C17_NothingReturned ==
    (pc \in {"done", "failed"} /\ outcome.result = NOTHING /\ ~st[run.root].modified) =>
        /\ pc = "done" /\ outcome.ret = UNDEF
        /\ \A d \in RunDrafts : st[d].revoked
        /\ outcome.called = run.listener
        /\ run.listener =>
              /\ outcome.patches = << Patch("replace", <<>>, UNDEF) >>
              /\ outcome.inverse = << Patch("replace", <<>>, Ref(run.base)) >>
              /\ outcome.live = {}

\* the sentinel returned, with a listener, after reads had created child drafts
C17_Witness ==
    /\ pc = "done" /\ outcome.result = NOTHING /\ run.listener /\ outcome.called
    /\ hist.steps > 0
    /\ \E c \in RunDrafts : st[c].parent = run.root

\* C12: every error the engine raises during a Run on a draftable base,
\* ModifiedAndReturned and CircularReference included, reaches the caller with every
\* draft of the run's scope revoked
C12_ErrorsAfterRevoke ==
    (pc = "failed" /\ outcome.err \in {"ModifiedAndReturned", "CircularReference"}) =>
        \A d \in RunDrafts : st[d].revoked

RECURSIVE DraftFree(_, _)
\* no draft in value v down to depth n
DraftFree(v, n) ==
    /\ ~isDraft(v)
    /\ (v[1] = "obj" /\ n > 0) =>
          \A i \in 1..Len(heap[v[2]].ents) :
             heap[v[2]].ents[i][2] = HOLE \/ DraftFree(heap[v[2]].ents[i][2], n - 1)

\* the present entries of a container, and those a draft or plain value shows
Shown(v) == Present(IF isDraft(v) THEN Latest(World, v[2]).ents ELSE heap[v[2]].ents)

RECURSIVE SameContent(_, _, _)
\* s is the content of v with every draft replaced by its own content: arrays
\* and records and maps key by key, sets element for element (one for one)
SameContent(v, s, n) ==
    IF ~isDraftable(v) \/ n = 0 THEN s = v
    ELSE /\ s[1] = "obj"
         /\ heap[s[2]].type = getArchtype(World, v)
         /\ Len(Shown(s)) = Len(Shown(v))
         /\ \A i \in 1..Len(Shown(v)) :
               \E j \in 1..Len(Shown(s)) :
                  /\ heap[s[2]].type = "Set" \/ Shown(s)[j][1] = Shown(v)[i][1]
                  /\ SameContent(Shown(v)[i][2], Shown(s)[j][2], n - 1)

\* C13: current(d) on a live draft returns a value without drafts that is
\* structurally equal to the draft's present content
C13_SnapshotContent ==
    pc = "snapped" =>
       /\ snap.err = ""
       /\ DraftFree(snap.ret, MaxDepth)
       /\ SameContent(Dr(snap.d), snap.ret, MaxDepth)

\* C14: a call of current(d) that returns leaves every draft state (finalized,
\* modified, assigned, copy), every scope with its draft list, the current
\* scope and every object that existed before the call as they were
C14_SnapshotFrame ==
    (pc = "snapped" /\ snap.err = "") =>
       /\ st = snap.before.st
       /\ scopes = snap.before.scopes
       /\ currentScope = snap.before.cur
       /\ SubSeq(heap, 1, Len(snap.before.heap)) = snap.before.heap

\* current() on a modified root draft copied a modified child draft too
C14_Witness ==
    /\ pc = "snapped" /\ snap.err = "" /\ snap.d = run.root
    /\ \E c \in Drafts : st[c].parent = run.root /\ st[c].modified
    /\ snap.ret[1] = "obj" /\ snap.ret[2] > Len(snap.before.heap)
    /\ Len(heap) >= Len(snap.before.heap) + 2


\* one op per element of from that other lacks, at its position in from
SetOps(from, other, op) ==
    LET idx == SelectSeq([i \in 1..Len(from) |-> i],
                         LAMBDA i : ~oHas(Obj("Set", other), from[i][2]))
    IN  [j \in 1..Len(idx) |-> Patch(op, <<Num(idx[j] - 1)>>, from[idx[j]][2])]

\* C15: for a modified root set the forward list is the removes in base order
\* then the adds in copy order, and the inverse list is the mirrored operations
\* in that same order; Set{1,2,3} with delete(2), add(4) iterates 1, 3, 4 and
\* gives [remove [1] 2, add [2] 4] and [add [1] 2, remove [2] 4]
C15_SetPatches ==
    (pc = "done" /\ NotReplaced /\ outcome.called /\ st[run.root].type = "Set"
       /\ st[run.root].modified) =>
       LET b == SetHeap[1].ents
           c == heap[st[run.root].copy].ents
       IN  /\ outcome.patches = SetOps(b, c, "remove") \o SetOps(c, b, "add")
           /\ outcome.inverse = SetOps(b, c, "add") \o SetOps(c, b, "remove")
           /\ c = << <<Num(1), Num(1)>>, <<Num(3), Num(3)>>, <<Num(4), Num(4)>> >> =>
                 /\ outcome.patches = << Patch("remove", <<Num(1)>>, Num(2)),
                                         Patch("add", <<Num(2)>>, Num(4)) >>
                 /\ outcome.inverse = << Patch("add", <<Num(1)>>, Num(2)),
                                         Patch("remove", <<Num(2)>>, Num(4)) >>


\* v is the root draft of a manual scope
ManualRoot(v) == isDraft(v) /\ v[2] \in 1..Len(st) /\ st[v[2]].isManual

\* the step is a createDraft / finishDraft call that returned
Created == man'.n # man.n /\ man'.op = "create" /\ man'.err = ""
Finished == man'.n # man.n /\ man'.op = "finish" /\ man'.err = ""

\* C18: createDraft returns a live manual draft and leaves the current scope as
\* it was; no step other than the finishDraft of its root revokes a draft of a
\* manual scope or closes that scope, whatever produce calls and other manual
\* drafts come in between; finishDraft returns the finalized root, revokes every
\* draft of the root's scope and leaves the current scope as it was; finishDraft
\* on a value that is not a manual root draft fails
C18_ManualLifecycle ==
    [][/\ Created =>
             /\ currentScope' = currentScope
             /\ isDraft(man'.ret)
             /\ st'[man'.ret[2]].isManual /\ ~st'[man'.ret[2]].revoked
             /\ ~scopes'[st'[man'.ret[2]].scope].dead
       /\ Finished =>
             /\ currentScope' = currentScope
             /\ \A d \in 1..Len(st') :
                   st'[d].scope = st[man'.v[2]].scope => st'[d].revoked
             /\ st[man'.v[2]].modified => st'[man'.v[2]].finalized
             /\ man'.ret = Ref(IF st[man'.v[2]].modified THEN st'[man'.v[2]].copy
                               ELSE st[man'.v[2]].base)
       /\ (man'.n # man.n /\ man'.op = "finish" /\ ~ManualRoot(man'.v)) => man'.err # ""
       /\ \A d \in 1..Len(st) :
             (InManual(d) /\ ~st[d].revoked
                /\ ~(Finished /\ st[d].scope = st[man'.v[2]].scope)) =>
                (~st'[d].revoked /\ ~scopes'[st[d].scope].dead)
      ]_vars

\* a manual draft created before a produce call and finished after it returned,
\* with a modified child draft, while another manual draft is still live
C18_Witness ==
    /\ man.op = "finish" /\ man.err = "" /\ man.pc = "done"
    /\ st[man.v[2]].scope < run.scope
    /\ \E c \in Drafts : st[c].parent = man.v[2] /\ st[c].modified /\ st[c].revoked
    /\ \E e \in Drafts : e # man.v[2] /\ st[e].isManual /\ ~st[e].revoked


RECURSIVE PlainAt(_, _, _)
\* the value path[1..i] leads to from plain value v in the initial heap
PlainAt(v, path, i) ==
    IF i = 0 THEN v
    ELSE LET parent == PlainAt(v, path, i - 1) IN
         IF parent[1] # "obj" THEN UNDEF ELSE oGet(InitHeap[parent[2]], path[i])

\* some segment of path is __proto__ or constructor, addressed on a record or array
ForbiddenAt(v, path) ==
    \E i \in 1..Len(path) :
       /\ path[i] \in {PROTO, CONSTRUCTOR}
       /\ PlainAt(v, path, i - 1)[1] = "obj"
       /\ InitHeap[PlainAt(v, path, i - 1)[2]].type \in {"Object", "Array"}

\* C19: applyPatches fails with PathUnresolved and leaves the target unchanged
\* when the first patch of the list has __proto__ or constructor, addressed on
\* a record or array parent, at any position of its path
C19_ForbiddenSegment ==
    (pc = "applied" /\ run.root = 0
       /\ ForbiddenAt(Ref(run.base), outcome.patches[1].path)) =>
       /\ outcome.applyErr = "PathUnresolved"
       /\ BaseUnchanged

\* the engine state before any call
FreshWorld ==
    [heap |-> InitHeap, st |-> <<>>, scopes |-> <<>>, cur |-> 0, autoFreeze |-> autoFreeze,
     err |-> ""]

\* C20: applyPatches on a plain target that fails returns no value and leaves
\* every object of the target as it was, whatever earlier patches of the list did
C20_ApplyAtomic ==
    (pc = "applied" /\ run.root = 0 /\ outcome.applyErr # "") =>
       /\ outcome.value = UNDEF
       /\ \A o \in 1..Len(InitHeap) : heap[o] = InitHeap[o]
       /\ \A d \in Drafts : st[d].revoked
       /\ currentScope = 0

\* the second patch failed after the first one alone applies and changes the result
C20_Witness ==
    /\ pc = "applied" /\ run.root = 0 /\ outcome.applyErr # ""
    /\ Len(outcome.patches) = 2
    /\ Immer_applyPatches(FreshWorld, Ref(run.base), <<outcome.patches[1]>>).w.err = ""
    /\ Immer_applyPatches(FreshWorld, Ref(run.base), <<outcome.patches[1]>>).ret
          # Ref(run.base)
    /\ \E d \in Drafts : st[d].modified


\* C24: in every reachable state a modified draft has its copy allocated, also
\* an ancestor that no write touched and that is modified through a descendant
C24_ModifiedHasCopy == \A d \in Drafts : st[d].modified => st[d].copy # 0

\* a draft no key of which was written, modified through its modified child
C24_Witness ==
    \E d \in Drafts :
       /\ st[d].modified /\ st[d].copy # 0
       /\ \A t \in hist.touched : t[1] # d
       /\ \E c \in Drafts : st[c].parent = d /\ st[c].modified


C29_WriteDropRule ==
    [][\A d \in Drafts : \A k \in Keys(d) : \A v \in ZeroVals :
          (ObjSet(d, k, v) /\ (v # UNDEF \/ oHas(Latest(World, d), k))) =>
             IF is(v, oGet(Latest(World, d), k))
             THEN st'[d] = st[d] /\ heap' = heap
             ELSE /\ st'[d].copy # 0
                  /\ oGet(heap'[st'[d].copy], k) = v
                  /\ oGet(aObj(st'[d].assigned), k) = TRUEV
      ]_vars


\* what a read of key k of draft d would return and do in the present state
ReadOf(d, k) == readDraft(World, d, k)

\* the read of k creates exactly one draft: a child of d for the base's own
\* value at k, stored in d's copy at k and returned
DraftsChild(d, k) ==
    LET r == ReadOf(d, k)
        n == Len(st)
        eff == oGet(Latest(World, d), k)
    IN  /\ ~st[d].finalized
        /\ eff[1] = "obj" /\ oHas(Base(World, d), k) /\ eff = oGet(Base(World, d), k)
        /\ Len(r.w.st) = n + 1 /\ r.ret = Dr(n + 1)
        /\ r.w.st[n + 1].parent = d /\ r.w.st[n + 1].base = eff[2]
        /\ r.w.st[n + 1].scope = st[d].scope
        /\ r.w.st[d].copy # 0 /\ oGet(r.w.heap[r.w.st[d].copy], k) = Dr(n + 1)

\* C26: for a live record, array or map draft d and a key k, a read of k that
\* creates a draft creates the child for the base's value at k (d not finalized,
\* the effective value draftable and the base's own) and stores it in the copy
\* at k; a read that returns a draft, repeated with no write in between,
\* returns the same draft and changes nothing
C26_ChildDraftOnRead ==
    \A d \in Drafts : \A k \in KeysOf(d) \cup {KZ} :
       (Live(d) /\ st[d].type # "Set" /\ ReadOf(d, k).w.err = "") =>
          /\ Len(ReadOf(d, k).w.st) > Len(st) => DraftsChild(d, k)
          /\ isDraft(ReadOf(d, k).ret) =>
                readDraft(ReadOf(d, k).w, d, k) = ReadOf(d, k)

\* a read has stored a child draft in a map draft's copy, next to a key that
\* holds a plain object the recipe wrote, which reads leave undrafted
C26_Witness ==
    /\ pc = "recipe" /\ hist.steps = 2
    /\ \E d \in Drafts :
          /\ Live(d) /\ st[d].type = "Map" /\ st[d].copy # 0
          /\ \E k \in KeysOf(d) : isDraft(oGet(Latest(World, d), k))
          /\ \E k \in KeysOf(d) :
                /\ oGet(Latest(World, d), k)[1] = "obj"
                /\ Len(ReadOf(d, k).w.st) = Len(st)


\* the <<scope, position>> pairs at which draft d is listed
ListedAt(d) ==
    {<<sc, i>> \in (1..Len(scopes)) \X (1..Len(st)) :
        i <= Len(scopes[sc].drafts) /\ scopes[sc].drafts[i] = d}

\* C27: every draft is listed once, in the draft list of the scope it carries;
\* a child draft carries its parent's scope whatever scope was current when it
\* was created, and a root draft heads the list of the scope entered for it
C27_DraftInOneScope ==
    \A d \in Drafts :
       /\ Cardinality(ListedAt(d)) = 1
       /\ \A p \in ListedAt(d) : p[1] = st[d].scope
       /\ st[d].parent # 0 => st[d].scope = st[st[d].parent].scope
       /\ st[d].parent = 0 => scopes[st[d].scope].drafts[1] = d

\* a manual draft's child created while the scope of a later produce call was
\* the current one
C27_Witness ==
    /\ pc = "recipe" /\ currentScope = run.scope
    /\ \E c \in Drafts :
          /\ st[c].parent # 0 /\ st[st[c].parent].isManual
          /\ c > run.root /\ st[c].scope # currentScope



\* C28: scope stack balance: when a produce call ends, by returning or by throwing
\* at any of its steps (root draft creation, recipe, patch setup, finalization),
\* and when a createDraft or finishDraft call ends, at any nesting depth, the
\* current-scope pointer has the value it had before the call
C28_ScopeBalance ==
    [][/\ Len(stack') < Len(stack) => currentScope' = Top.before
       /\ (Len(stack') = Len(stack) /\ (Len(scopes') > Len(scopes) \/ man' # man))
             => currentScope' = currentScope]_vars

\* a step in which the engine froze an object that was not frozen before
Froze == \E o \in 1..Len(heap) : ~heap[o].frozen /\ heap'[o].frozen

\* C23: freeze policy: whenever a produce or finishDraft call freezes something,
\* auto-freeze is enabled, the scope the call finalizes has no parent scope and its
\* canAutoFreeze flag was true, and a produce call that freezes was not running
\* inside the recipe of another produce call
C23_FreezePolicy ==
    [][Froze =>
         /\ autoFreeze
         /\ \A sc \in 1..Len(scopes) :
               (~scopes[sc].dead /\ scopes'[sc].dead)
                  => scopes[sc].parent = 0 /\ scopes[sc].canAutoFreeze
         /\ man' = man => stack' = <<>>]_vars

\* C21: no value of a forward or inverse patch the listener received is a draft or
\* holds a draft at any depth, whatever the recipe assigned: drafts of a live scope
\* of another call, or drafts inside plain objects it inserted
C21_PatchesDraftFree ==
    outcome.called =>
       /\ \A i \in 1..Len(outcome.patches) :
             DraftFree(outcome.patches[i].value, MaxDepth)
       /\ \A i \in 1..Len(outcome.inverse) :
             DraftFree(outcome.inverse[i].value, MaxDepth)

RECURSIVE ObjectsOf(_, _)
\* the plain containers value v holds, itself included, down to depth n
ObjectsOf(v, n) ==
    IF v[1] # "obj" \/ n = 0 THEN {}
    ELSE {v[2]} \cup UNION {ObjectsOf(heap[v[2]].ents[i][2], n - 1) :
                              i \in 1..Len(heap[v[2]].ents)}

\* the containers only the value of patch i holds, not the target of the call
HeldByPatch(i) ==
    ObjectsOf(outcome.patches[i].value, MaxDepth) \ ObjectsOf(Ref(run.base), MaxDepth)

\* C22: the value Immer.applyPatches returns shares no container with the value
\* of a patch of the list, a root replace patch included, and the call froze no
\* container of a patch value: every patch value was deep-cloned
C22_ApplyNoAlias ==
    (pc = "applied" /\ run.root = 0 /\ outcome.applyErr = "") =>
       \A i \in 1..Len(outcome.patches) : \A o \in HeldByPatch(i) :
          /\ o \notin ObjectsOf(outcome.value, MaxDepth)
          /\ heap[o].frozen = InitHeap[o].frozen

RECURSIVE ValueAt(_, _, _)
\* the value found in v along path[i..], NOVALUE where the path leaves the value
ValueAt(v, path, i) ==
    IF i > Len(path) THEN v
    ELSE IF v[1] # "obj" \/ ~oHas(heap[v[2]], path[i]) THEN NOVALUE
    ELSE ValueAt(oGet(heap[v[2]], path[i]), path, i + 1)

\* C30: a forward remove patch for key k of a record or keyed-map draft is
\* emitted only if k is absent from the finalized value of that draft, also after
\* the base value of a child draft was written over the child at k of a parent
\* that was not modified yet and that a later write modified through another key
C30_RemoveOnlyAbsent ==
    (pc = "done" /\ outcome.called) =>
       \A i \in 1..Len(outcome.patches) :
          (outcome.patches[i].op = "remove" /\ outcome.patches[i].path # <<>>)
             => ValueAt(outcome.ret, outcome.patches[i].path, 1) = NOVALUE

SetProbes(d) ==
    BaseKeysOf(d) \cup KeysOf(d) \cup {Num(2)}
    \cup {Ref(st[c].base) : c \in {c \in Drafts : st[c].parent = d}}

\* the child drafts set draft d issued for value v
IssuedFor(d, v) == {c \in Drafts : st[c].parent = d /\ Ref(st[c].base) = v}

\* C32: on a live set draft, has(v) is true exactly when the effective value holds
\* v or a child draft issued for v; add(v) changes nothing when has(v) holds and
\* otherwise leaves v in the copy of the modified draft; delete(v) returns false
\* and changes nothing when has(v) does not hold and otherwise marks the draft
\* modified and removes v from its copy, or the draft issued for v when the
\* effective value did not hold v itself
C32_SetMembership ==
    \A d \in Drafts : (Live(d) /\ st[d].type = "Set") =>
       \A v \in SetProbes(d) :
          Let(DraftSet_has(World, d, v).ret = TRUEV, LAMBDA h :
              /\ h <=> \/ oHas(Latest(World, d), v)
                       \/ \E c \in IssuedFor(d, v) : oHas(Latest(World, d), Dr(c))
              /\ Let(DraftSet_add(World, d, v).w, LAMBDA W1 :
                     IF h THEN W1 = World
                     ELSE /\ W1.st[d].modified /\ W1.st[d].copy # 0
                          /\ oHas(W1.heap[W1.st[d].copy], v))
              /\ Let(DraftSet_delete(World, d, v), LAMBDA r :
                     IF ~h THEN r.ret = FALSEV /\ r.w = World
                     ELSE /\ r.w.st[d].modified /\ r.w.st[d].copy # 0
                          /\ ~oHas(r.w.heap[r.w.st[d].copy], v)
                          /\ ~oHas(Latest(World, d), v) =>
                                \A c \in 1..Len(r.w.st) :
                                   (r.w.st[c].parent = d /\ Ref(r.w.st[c].base) = v)
                                      => ~oHas(r.w.heap[r.w.st[d].copy], Dr(c))))

\* a set draft whose copy holds the child draft issued for a base element, after
\* the recipe added a value and asked to add the base element again
C32_Witness ==
    /\ pc = "recipe" /\ hist.writes = 2
    /\ \E d \in Drafts :
          /\ Live(d) /\ st[d].type = "Set" /\ st[d].copy # 0 /\ st[d].modified
          /\ \E v \in BaseKeysOf(d) :
                /\ v[1] = "obj" /\ ~oHas(heap[st[d].copy], v) /\ <<d, v>> \in hist.touched
                /\ \E c \in IssuedFor(d, v) : oHas(heap[st[d].copy], Dr(c))
                /\ DraftSet_has(World, d, v).ret = TRUEV

\* the value the draft or plain value v has become once the step has finalized it
FinalizedTo(v) ==
    IF ~isDraft(v) THEN v
    ELSE IF st'[v[2]].modified THEN Ref(st'[v[2]].copy) ELSE Ref(st'[v[2]].base)

\* the finalized values of the elements of set copy o before the step, in order
FinalizedElems(o) ==
    [i \in 1..Len(heap[o].ents) |-> FinalizedTo(heap[o].ents[i][2])]

\* the positions of sequence s that hold the first occurrence of their value
FirstAt(s) == {i \in 1..Len(s) : \A j \in 1..(i - 1) : s[j] # s[i]}

\* C33: a step that finalizes a modified set draft and succeeds leaves in the set
\* the elements its copy had before, in the same order, each child draft replaced
\* in place by its finalized value (its base when it is unmodified); a value that
\* then occurs twice stays once, at its first place
C33_SetFinalizeOrder ==
    [][\A d \in Drafts :
          (st[d].type = "Set" /\ st[d].modified /\ ~st[d].finalized
             /\ st'[d].finalized /\ pc' = "done") =>
             /\ Len(heap'[st[d].copy].ents) = Cardinality(FirstAt(FinalizedElems(st[d].copy)))
             /\ \A i \in FirstAt(FinalizedElems(st[d].copy)) :
                   heap'[st[d].copy].ents[Cardinality({j \in FirstAt(FinalizedElems(st[d].copy)) : j <= i})]
                      = <<FinalizedElems(st[d].copy)[i], FinalizedElems(st[d].copy)[i]>>]_vars

\* a finalized set of three elements whose second element is the copy of its
\* modified child draft, with an element the recipe added behind it
C33_Witness ==
    /\ pc = "done"
    /\ \E d \in Drafts : \E c \in Drafts :
          /\ st[d].type = "Set" /\ st[d].finalized
          /\ st[c].parent = d /\ st[c].modified /\ st[c].finalized
          /\ Len(heap[st[d].copy].ents) = 3
          /\ heap[st[d].copy].ents[2][2] = Ref(st[c].copy)
          /\ heap[st[d].copy].ents[3][2] \notin {Ref(st[c].copy), Ref(st[c].base)}

\* C34: the inverse patches of a modified root set, replayed in list order on the
\* result of the run, give a set that iterates the elements of the base in the
\* order of the base
C34_SetInverseOrder ==
    (pc = "applied" /\ outcome.applied = "inverse" /\ outcome.applyErr = ""
       /\ NotReplaced /\ st[run.root].type = "Set" /\ st[run.root].modified) =>
       /\ outcome.value[1] = "obj"
       /\ heap[outcome.value[2]].ents = SetHeap[1].ents

\* C35: the value a produce call returns holds no draft at any depth, with
\* auto-freeze on and off: every reference to a draft of the finished scope was
\* replaced by the draft's finalized value, also a second reference to a draft
\* that sits inside a plain object the recipe inserted
C35_ResultDraftFree ==
    (pc = "done" /\ outcome.ret[1] = "obj") => DraftFree(outcome.ret, MaxDepth)

\* the drafts of other scopes that the finalization of the innermost produce call
\* is about to meet: stored in the copy of one of its modified drafts, or returned
MetForeign(result) ==
    {f \in Drafts :
       /\ st[f].scope # Top.scope
       /\ \/ result = Dr(f)
          \/ \E d \in Drafts :
                /\ st[d].scope = Top.scope /\ st[d].modified
                /\ \E i \in 1..Len(heap[st[d].copy].ents) :
                      heap[st[d].copy].ents[i][2] = Dr(f)}

\* C36: when the finalization of a produce call meets a draft of another scope, the
\* draft stays in the value returned, its own state is untouched (not finalized,
\* not revoked), the scope's counter of unfinalized drafts went down only for its
\* own finalized drafts, its canAutoFreeze flag is cleared and the value returned
\* is not frozen
C36_ForeignDraftKept ==
    [][(Len(stack') < Len(stack) /\ outcome'.err = "" /\ outcome'.result # NOVALUE) =>
          \A f \in MetForeign(outcome'.result) :
             /\ st'[f] = st[f]
             /\ Dr(f) \in {outcome'.ret}
                            \cup {heap'[outcome'.ret[2]].ents[i][2] :
                                    i \in 1..(IF outcome'.ret[1] = "obj"
                                              THEN Len(heap'[outcome'.ret[2]].ents) ELSE 0)}
             /\ scopes'[Top.scope].unfinalized =
                   Len(scopes[Top.scope].drafts)
                   - Cardinality({d \in Drafts : st[d].scope = Top.scope /\ st'[d].finalized})
             /\ ~scopes'[Top.scope].canAutoFreeze
             /\ outcome'.ret[1] = "obj" => ~heap'[outcome'.ret[2]].frozen]_vars

\* C37: the patch listener is called for a produce call and for a finishDraft
\* call exactly when a listener was passed and the call succeeded; at the moment
\* of the call the scope is finalized and closed, no draft of the scope is usable
\* any more, and the lists passed are the lists the scope ends with
C37_ListenerOnce ==
    /\ pc \in {"done", "failed"} =>
          /\ outcome.called <=> (run.listener /\ pc = "done")
          /\ outcome.called =>
                /\ outcome.live = {}
                /\ scopes[run.scope].dead
                /\ st[run.root].modified => st[run.root].finalized
                /\ outcome.patches = scopes[run.scope].patches
                /\ outcome.inverse = scopes[run.scope].inverse
    /\ man.op = "finish" =>
          /\ man.called <=> (man.listener /\ man.err = "")
          /\ man.called =>
                /\ man.live = {}
                /\ scopes[st[man.v[2]].scope].dead
                /\ st[man.v[2]].modified => st[man.v[2]].finalized

\* a produce call with a listener has finished after a write, and a modified manual
\* draft was finished with a listener
C37_Witness ==
    /\ pc = "done" /\ outcome.called /\ Len(outcome.patches) > 0
    /\ man.op = "finish" /\ man.called /\ st[man.v[2]].modified

RECURSIVE ThroughAssigned(_, _, _)
\* path[i..] walked from value v of the tree the recipe leaves: TRUE when, before
\* its last segment, the path leaves a set draft through an element, or leaves a
\* draft through a key of its assigned map that holds a modified draft
ThroughAssigned(v, path, i) ==
    IF i >= Len(path) THEN FALSE
    ELSE IF isDraft(v)
    THEN \/ st[v[2]].type = "Set"
         \/ /\ oHas(aObj(st[v[2]].assigned), path[i])
            /\ isDraft(oGet(Latest(World, v[2]), path[i]))
            /\ st[oGet(Latest(World, v[2]), path[i])[2]].modified
         \/ /\ oHas(Latest(World, v[2]), path[i])
            /\ ThroughAssigned(oGet(Latest(World, v[2]), path[i]), path, i + 1)
    ELSE /\ v[1] = "obj"
         /\ oHas(heap[v[2]], path[i])
         /\ ThroughAssigned(oGet(heap[v[2]], path[i]), path, i + 1)

\* the modified drafts held by the root draft under an assigned key (record, map)
\* or as an element (set)
AssignedChildren ==
    {e \in {<<Latest(World, run.root).ents[i][1], Latest(World, run.root).ents[i][2]>> :
               i \in 1..Len(Latest(World, run.root).ents)} :
        /\ isDraft(e[2]) /\ st[e[2][2]].modified
        /\ \/ st[run.root].type = "Set"
           \/ oGet(aObj(st[run.root].assigned), e[1]) = TRUEV}

\* C38: when a run with a listener finishes, no forward patch has a path that
\* goes on through a set element or through an assigned key holding a modified
\* child draft; for such a child of the root the root's own add or replace patch
\* carries the child's finalized copy; and no two forward patches have the same
\* operation and path
C38_PathDedup ==
    [][(pc = "recipe" /\ pc' = "done" /\ outcome'.called /\ outcome'.result = UNDEF) =>
          /\ \A i \in 1..Len(outcome'.patches) :
                ~ThroughAssigned(Dr(run.root), outcome'.patches[i].path, 1)
          /\ \A e \in AssignedChildren :
                \E i \in 1..Len(outcome'.patches) :
                   /\ Len(outcome'.patches[i].path) = 1
                   /\ st[run.root].type # "Set" => outcome'.patches[i].path = <<e[1]>>
                   /\ outcome'.patches[i].op \in {"add", "replace"}
                   /\ outcome'.patches[i].value = Ref(st'[e[2][2]].copy)
          /\ \A i, j \in 1..Len(outcome'.patches) :
                (outcome'.patches[i].op = outcome'.patches[j].op
                 /\ outcome'.patches[i].path = outcome'.patches[j].path) => i = j]_vars

\* a run on a record or map has finished after the recipe modified a child draft
\* and stored it under a new key of the root: the patch of that key carries the
\* child's finalized copy
C38_Witness ==
    /\ pc = "done" /\ outcome.called /\ st[run.root].type \in {"Object", "Map"}
    /\ \E c \in Drafts \ {run.root} :
          /\ st[c].modified /\ st[c].finalized /\ <<run.root, KZ>> \in hist.touched
          /\ \E i \in 1..Len(outcome.patches) :
                /\ outcome.patches[i].path = <<KZ>>
                /\ outcome.patches[i].value = Ref(st[c].copy)

\* C39: current(d) on a live draft returns: the traversal of the copy ends
\* within MaxVisits visited elements, also for a modified set draft that holds
\* draftable elements which are not frozen
C39_SnapshotReturns == pc = "snapped" => snap.err # "NoReturn"

\* index of the first root replace patch at or after i, 0 if none
NextRootReplace(patches, i) ==
    IF \E j \in i..Len(patches) : patches[j].path = <<>> /\ patches[j].op = "replace"
    THEN CHOOSE j \in i..Len(patches) :
            /\ patches[j].path = <<>> /\ patches[j].op = "replace"
            /\ \A h \in i..(j - 1) : ~(patches[h].path = <<>> /\ patches[h].op = "replace")
    ELSE 0

RECURSIVE SeqReplay(_, _, _, _)
\* patches[i..] applied to v in order: the patches up to the next root replace by
\* one producer, then the root replace substitutes the whole value, and so on
SeqReplay(W, v, patches, i) ==
    IF W.err # "" THEN Ret(W, UNDEF)
    ELSE IF i > Len(patches) THEN Ret(W, v)
    ELSE Let(NextRootReplace(patches, i), LAMBDA j :
         IF j = 0 THEN Immer_applyPatches(W, v, SubSeq(patches, i, Len(patches)))
         ELSE IF j = i THEN SeqReplay(W, patches[j].value, patches, j + 1)
         ELSE SeqReplay(Immer_applyPatches(W, v, SubSeq(patches, i, j - 1)).w,
                        patches[j].value, patches, j + 1))

\* the replay of the whole list an Apply step was given, and the replay of the
\* list from its last root replace on
Replayed == SeqReplay(World, Ref(run.base), outcome.patches, 1)

ReplayedTail ==
    SeqReplay(World, Ref(run.base),
              SubSeq(outcome.patches,
                     IF LastRootReplace(outcome.patches) = 0 THEN 1
                     ELSE LastRootReplace(outcome.patches),
                     Len(outcome.patches)), 1)

====
